---------------------------- MODULE Spec2Model ----------------------------
(***************************************************************************)
(* A model of the hihi on-ledger program (src/src/processor.rs,            *)
(* src/src/state.rs, src/src/instruction.rs).                              *)
(*                                                                         *)
(* The account data of the instance is held in decoded form: the variable  *)
(* `account` is what HihiState::unpack_unchecked returns for the bytes     *)
(* currently stored.  Every write-back stores                              *)
(* UnpackFromSlice(PackIntoSlice(instance)), so the byte layout of         *)
(* state.rs is exercised on every successful call.                         *)
(*                                                                         *)
(* Bytes are naturals in 0..255, byte strings are sequences of bytes, a    *)
(* Pubkey is its 32 bytes, a puzzle entry is its 57 bytes.                 *)
(***************************************************************************)
EXTENDS Integers, Sequences, FiniteSets, TLC

(***************************************************************************)
(* Program constants (processor.rs 20-27, state.rs 14-47).                 *)
(***************************************************************************)
LB_DIFF == 3
MAX_DIFF == 23
START_DIFF == 2
BREACH_WINDOW == 100
START_PRICE == 150000000
LB_TOKEN_COUNT == 200
LB_DIFF_INCREASE == 5
LB_MAX_PER_EPOCH == 23
MIN_LAMPORTS == 10000

TOKENS == 1
WORK == 32
MAGIC_LEN == 1
MAGIC == 23
WORK_BYTES == TOKENS + WORK + MAGIC_LEN + MAGIC
LB_BYTES == TOKENS + WORK + MAGIC_LEN + MAGIC
LB_COUNT_BYTES == 4
LB_PER_EPOCH_BYTES == 4
\* a list capacity of two entries more
MAX_COUNT_raised == 101 + 2
MAX_COUNT == 101
INITIALIZED_BYTES == 1
NONCE_BYTES == 1
SLOT_BYTES == 8
EPOCH_BYTES == 8
DIFFICULTY_BYTES == 1
LAMPORTS_BYTES == 8
PRICE_BYTES == 8
REMAIN_BYTES == 8
COUNT_BYTES == 4
COUNT_PER_WINDOW_BYTES == 4
CACHED_BYTES == 8
TOKEN_MINT_ID_BYTES == 32
TOKEN_DOUBLES_BYTES == 8
ADMIN_ONE_BYTES == 32
ADMIN_TWO_BYTES == 32
WITHDRAW_BYTES == 32
VEC_COUNT == 1
VEC_DATA_LENGTH == 4
VEC_DATA == WORK_BYTES * MAX_COUNT
STATE_SPACE ==
    INITIALIZED_BYTES + NONCE_BYTES + SLOT_BYTES + EPOCH_BYTES
    + DIFFICULTY_BYTES + LAMPORTS_BYTES + PRICE_BYTES + REMAIN_BYTES
    + COUNT_BYTES + COUNT_PER_WINDOW_BYTES + CACHED_BYTES
    + TOKEN_MINT_ID_BYTES + TOKEN_DOUBLES_BYTES + LB_COUNT_BYTES
    + LB_PER_EPOCH_BYTES + LB_BYTES + ADMIN_ONE_BYTES + ADMIN_TWO_BYTES
    + WITHDRAW_BYTES + VEC_COUNT + VEC_DATA_LENGTH + VEC_DATA

I32_MAX == 2147483647

(***************************************************************************)
(* Bounds of the model.                                                    *)
(***************************************************************************)
\* the digest function has HashMod classes
HashMod == 7
\* the host epoch advances at most this far
MaxEpoch == 1
\* at most this many successful Breaches in a run
MaxBreaches == 1
\* at most this many successful Claims in a run
MaxClaims == 1
\* at most this many successful LimitBreaks in a run
MaxLimitBreaks == 1
\* at most this many successful ChangeKeys in a run
MaxKeyChanges == 1
\* at most this many successful Withdraws in a run
MaxWithdraws == 1
\* the filling run: the work list is filled to this length by full purchases
FillLevel == 90
\* the filling run: at most this many successful Breaches
MaxFillBreaches == 12
\* the filling run: at most this many successful Claims
MaxFillClaims == 2
\* the filling run: at most this many successful other operations
MaxFillOthers == 1
\* the run of limit breaks: the host epoch advances at most this far
MaxRunEpochs == 20
\* the counter arithmetic is tried this close to i32::MAX
CountMargin == 10
\* the run of limit breaks: at most this many successful Breaches
MaxRunBreaches == 3
\* the largest backlog and the most doubling credits a Breach is tried on
MaxCached == 12

(***************************************************************************)
(* Byte strings.                                                           *)
(***************************************************************************)
Zeros(n) == [i \in 1..n |-> 0]

RECURSIVE ToLeBytes(_, _)
\* n.to_le_bytes() for an unsigned integer of w bytes
ToLeBytes(n, w) ==
    IF w = 0 THEN << >> ELSE <<n % 256>> \o ToLeBytes(n \div 256, w - 1)

RECURSIVE FromLeBytes(_)
\* uNN::from_le_bytes(b)
FromLeBytes(b) ==
    IF b = << >> THEN 0 ELSE Head(b) + 256 * FromLeBytes(Tail(b))

\* a.starts_with(p)
StartsWith(a, p) ==
    /\ Len(p) <= Len(a)
    /\ \A i \in 1..Len(p) : a[i] = p[i]

RECURSIVE SumBytes(_, _, _)
\* a position-weighted sum of the bytes s[lo] .. s[hi]
SumBytes(s, lo, hi) ==
    IF lo > hi THEN 0
    ELSE IF lo = hi THEN ((lo % 3) + 1) * s[lo]
    ELSE LET mid == (lo + hi) \div 2
         IN SumBytes(s, lo, mid) + SumBytes(s, mid + 1, hi)

(***************************************************************************)
(* The treasury and the authority's balance are u64 values that exceed the *)
(* range of the model checker's integers; they are kept as two limbs,      *)
(* <<hi, lo>> standing for hi * Limb + lo with 0 <= lo < Limb.  Limb is    *)
(* 2^24, so the little-endian bytes of the value are the three bytes of lo *)
(* followed by the five bytes of hi.                                       *)
(***************************************************************************)
Limb == 256 * 256 * 256

U64(n) == <<n \div Limb, n % Limb>>

U64Add(a, b) ==
    <<a[1] + b[1] + ((a[2] + b[2]) \div Limb), (a[2] + b[2]) % Limb>>

U64Le(a, b) == a[1] < b[1] \/ (a[1] = b[1] /\ a[2] <= b[2])

\* a - b for b <= a
U64Sub(a, b) ==
    IF a[2] >= b[2] THEN <<a[1] - b[1], a[2] - b[2]>>
    ELSE <<a[1] - b[1] - 1, a[2] + Limb - b[2]>>

\* a * 5 / 100 in integer arithmetic
U64FivePercent(a) ==
    LET hi5 == a[1] * 5 + ((a[2] * 5) \div Limb)
        lo5 == (a[2] * 5) % Limb
        r == hi5 % 100
    IN <<hi5 \div 100, (r * Limb + lo5) \div 100>>

\* a + b on i32 for b >= 0, as the machine adds: past i32::MAX the sum
\* continues from i32::MIN = -i32::MAX - 1
add_i32(a, b) ==
    IF a > I32_MAX - b
    THEN (-I32_MAX - 1) + (a - (I32_MAX - b) - 1)
    ELSE a + b

\* i32::from_le_bytes(b): the top bit of the fourth byte is the sign
I32FromLeBytes(b) ==
    FromLeBytes(SubSeq(b, 1, 3))
    + Limb * (IF b[4] >= 128 THEN b[4] - 256 ELSE b[4])

U64ToLeBytes(a) == ToLeBytes(a[2], 3) \o ToLeBytes(a[1], 5)

U64FromLeBytes(b) ==
    <<FromLeBytes(SubSeq(b, 4, 8)), FromLeBytes(SubSeq(b, 1, 3))>>

(***************************************************************************)
(* Identities.  Pubkey(k) is the key whose first byte is k.                *)
(***************************************************************************)
Pubkey(k) == [i \in 1..32 |-> IF i = 1 THEN k ELSE 0]

INSTANCE_ID == Pubkey(9)
UserKeys == {Pubkey(1), Pubkey(2)}

(***************************************************************************)
(* solana_program::hash::hash.  SHA-256 is modelled by a deterministic     *)
(* function of the bytes, their positions and their number, with HashMod   *)
(* digests: the digest of class 0 begins with the whole magic template     *)
(* (33, 232, 0, ...), so it solves a puzzle of every length; the digest of *)
(* class 1 agrees with the template on its first six bytes only, that of   *)
(* class 2 on its first byte only; the others do not begin with 33.        *)
(***************************************************************************)
Digest(c) ==
    [i \in 1..32 |->
        IF c <= 1
        THEN (IF i = 1 THEN 33 ELSE IF i = 2 THEN 232
              ELSE IF i = 7 /\ c = 1 THEN 1 ELSE 0)
        ELSE IF c = 2 THEN (IF i = 1 THEN 33 ELSE 0)
        ELSE (IF i = 1 THEN c ELSE 0)]

hash(data) == Digest((SumBytes(data, 1, Len(data)) + Len(data)) % HashMod)

(***************************************************************************)
(* Pricing (processor.rs 682-738).                                         *)
(***************************************************************************)
calculate_tokens(count) ==
    IF count < 1000 THEN 100
    ELSE IF count >= 1000 /\ count < 10000 THEN 50
    ELSE IF count >= 10000 /\ count < 100000 THEN 25
    ELSE 10

(***************************************************************************)
(* price_grower(count, 150000000.0, 0.00218) for count = 0 .. 400, that    *)
(* is ceil(price * (powi(1.0f32 + rate, count) as f64)): the power is      *)
(* taken in single precision by repeated squaring, the product in double   *)
(* precision, and ceil adds one to the truncated product unless the        *)
(* product is integral.  Entry count + 1 of the table is the value for     *)
(* count.  The model checker has no floating point; the values were        *)
(* computed with IEEE-754 arithmetic.                                      *)
(***************************************************************************)
PriceGrowerTable ==
    <<
       150000000, 150326998, 150654710, 150983137, 151312280,
       151642138, 151972712, 152304018, 152636040, 152968777,
       153302247, 153636450, 153971386, 154307038, 154643423,
       154980541, 155318410, 155656994, 155996329, 156336397,
       156677217, 157018769, 157361073, 157704127, 158047915,
       158392454, 158737743, 159083802, 159430612, 159778154,
       160126466, 160475547, 160825396, 161175997, 161527348,
       161879486, 162232376, 162586052, 162940479, 163295693,
       163651675, 164008427, 164365966, 164724291, 165083403,
       165443266, 165803934, 166165370, 166527629, 166890657,
       167254472, 167619092, 167984498, 168350709, 168717707,
       169085527, 169454116, 169823528, 170193744, 170564765,
       170936609, 171309239, 171682674, 172056950, 172432048,
       172807950, 173184675, 173562205, 173940576, 174319768,
       174699766, 175080622, 175462300, 175844801, 176228142,
       176612324, 176997346, 177383191, 177769876, 178157419,
       178545803, 178935028, 179325110, 179716033, 180107815,
       180500454, 180893952, 181288308, 181683505, 182079560,
       182476491, 182874299, 183272982, 183672488, 184072888,
       184474183, 184876353, 185279382, 185683269, 186088068,
       186493743, 186900312, 187307740, 187716079, 188125295,
       188535387, 188946391, 189358306, 189771134, 190184802,
       190599418, 191014892, 191431332, 191848648, 192266876,
       192686016, 193106068, 193527049, 193948925, 194371748,
       194795466, 195220131, 195645708, 196072215, 196499670,
       196928019, 197357297, 197787542, 198218734, 198650855,
       199083907, 199517906, 199952853, 200388748, 200825590,
       201263398, 201702154, 202141840, 202582509, 203024143,
       203466762, 203910310, 204354823, 204800302, 205246783,
       205694211, 206142623, 206592018, 207042397, 207493741,
       207946086, 208399416, 208853710, 209309006, 209765304,
       210222602, 210680885, 211140150, 211600435, 212061722,
       212524045, 212987352, 213451642, 213916970, 214383299,
       214850683, 215319032, 215788436, 216258860, 216730285,
       217202747, 217676265, 218150819, 218626357, 219102967,
       219580597, 220059300, 220539040, 221019799, 221501631,
       221984500, 222468424, 222953403, 223439456, 223926527,
       224414689, 224903924, 225394214, 225885594, 226377994,
       226871485, 227366066, 227861739, 228358484, 228856320,
       229355211, 229855210, 230356282, 230858446, 231361735,
       231866098, 232371551, 232878131, 233385802, 233894599,
       234404469, 234915466, 235427589, 235940820, 236455161,
       236970646, 237487221, 238004959, 238523806, 239043797,
       239564932, 240087158, 240610528, 241135061, 241660738,
       242187596, 242715526, 243244637, 243774927, 244306380,
       244838959, 245372683, 245907605, 246443689, 246980954,
       247519345, 248058951, 248599721, 249141634, 249684763,
       250229091, 250774617, 251321269, 251869172, 252418203,
       252968503, 253519965, 254072643, 254626519, 255181593,
       255737901, 256295407, 256854147, 257414067, 257975239,
       258537627, 259101248, 259666104, 260232157, 260799426,
       261367965, 261937774, 262508798, 263081056, 263654584,
       264229346, 264805359, 265382624, 265961177, 266540963,
       267122001, 267704326, 268287939, 268872822, 269458938,
       270046360, 270635051, 271225048, 271816314, 272408867,
       273002726, 273597873, 274194307, 274792064, 275391126,
       275991458, 276593113, 277196074, 277800376, 278406001,
       279012895, 279621131, 280230707, 280841643, 281453884,
       282067431, 282682354, 283298582, 283916188, 284535116,
       285155404, 285777033, 286400021, 287024367, 287650091,
       288277191, 288905597, 289535416, 290166575, 290799183,
       291433114, 292068422, 292705143, 293343241, 293982733,
       294623602, 295265902, 295909560, 296554649, 297201133,
       297849030, 298498357, 299149079, 299801177, 300454760,
       301109791, 301766181, 302424038, 303083325, 303744042,
       304406226, 305069769, 305734849, 306401361, 307069302,
       307738710, 308409584, 309081924, 309755731, 310430968,
       311107708, 311785949, 312465621, 313146794, 313829434,
       314513612, 315199256, 315886403, 316575051, 317265165,
       317956746, 318649900, 319344593, 320040787, 320738411,
       321437610, 322138382, 322840655, 323544467, 324249745,
       324956632, 325665021, 326375020, 327086485, 327799559,
       328514135, 329230249, 329947973, 330667270, 331388176,
       332110549, 332834566, 333560086, 334287322, 335016060,
       335746372, 336478293, 337211824, 337946964, 338683677,
       339422036, 340161932, 340903509, 341646660, 342391456,
       343137897, 343885911, 344635535, 345386839, 346139825,
       346894420, 347650624, 348408509, 349168039, 349929214,
       350692070, 351456571, 352222753, 352990544, 353760088,
       354531277, 355304218, 356078733, 356855000, 357632912,
       358412576
    >>

\* price_grower in the first tier, where the model's counts lie
price_grower(count, price) ==
    IF count = 0 THEN price ELSE PriceGrowerTable[count + 1]

\* calculate_price(count, START_PRICE); the model keeps count below 1000
calculate_price(count, start_price) ==
    IF count < 1000 THEN price_grower(count, start_price)
    ELSE 1323796464

(***************************************************************************)
(* split_float((sol + br_sol) / bp_sol) and sol_to_lamports(bp_sol * frac) *)
(* (processor.rs 221-228, 740-751): the units are the digits before the    *)
(* decimal point of the f64 quotient printed in its shortest form, the     *)
(* remainder is the price in SOL times the digits after the point, times   *)
(* 10^9 and cut to an integer.  The quotient is rounded, so the result     *)
(* can be one unit short when payment plus remainder is a multiple of the  *)
(* price, and the remainder one lamport short or equal to the price.  The  *)
(* table holds <<units, remainder>> for the <<lamports, breach_remain,     *)
(* breach_price>> of this module at which the f64 evaluation (IEEE-754,    *)
(* lamports_to_sol = n / 10^9) differs from exact division; at the others  *)
(* it gives the exact quotient and remainder.                              *)
(***************************************************************************)
SplitFloatTable ==
    <<600000001, 0, 150000000>> :> <<4, 0>>
    @@ <<750000001, 0, 150000000>> :> <<5, 0>>
    @@ <<1050000001, 0, 150000000>> :> <<7, 0>>
    @@ <<1049999999, 2, 150000000>> :> <<7, 0>>
    @@ <<1499999999, 2, 150000000>> :> <<10, 0>>
    @@ <<599990001, 10000, 150000000>> :> <<4, 0>>
    @@ <<749990001, 10000, 150000000>> :> <<5, 0>>
    @@ <<599000001, 1000000, 150000000>> :> <<4, 0>>
    @@ <<749000001, 1000000, 150000000>> :> <<5, 0>>
    @@ <<1049000000, 1000000, 150000000>> :> <<6, 149999999>>
    @@ <<1049000001, 1000000, 150000000>> :> <<7, 0>>
    @@ <<1199000001, 1000000, 150000000>> :> <<8, 0>>
    @@ <<1499000001, 1000000, 150000000>> :> <<10, 0>>
    @@ <<525000001, 75000000, 150000000>> :> <<4, 0>>
    @@ <<675000001, 75000000, 150000000>> :> <<5, 0>>
    @@ <<975000001, 75000000, 150000000>> :> <<7, 0>>
    @@ <<1425000001, 75000000, 150000000>> :> <<10, 0>>
    @@ <<150654711, 0, 150654710>> :> <<1, 0>>
    @@ <<1500000000, 0, 150654710>> :> <<9, 144107609>>
    @@ <<1500000001, 0, 150654710>> :> <<9, 144107610>>
    @@ <<150654709, 2, 150654710>> :> <<1, 0>>
    @@ <<1054582969, 2, 150654710>> :> <<7, 0>>
    @@ <<150644711, 10000, 150654710>> :> <<1, 0>>
    @@ <<903918261, 10000, 150654710>> :> <<6, 0>>
    @@ <<149654711, 1000000, 150654710>> :> <<1, 0>>
    @@ <<1053582970, 1000000, 150654710>> :> <<6, 150654709>>
    @@ <<1053582971, 1000000, 150654710>> :> <<7, 0>>
    @@ <<1354892391, 1000000, 150654710>> :> <<9, 0>>
    @@ <<75654711, 75000000, 150654710>> :> <<1, 0>>
    @@ <<304608037, 0, 152304018>> :> <<2, 0>>
    @@ <<456912055, 0, 152304018>> :> <<3, 0>>
    @@ <<761520090, 0, 152304018>> :> <<4, 152304017>>
    @@ <<1066128126, 0, 152304018>> :> <<6, 152304017>>
    @@ <<1370736163, 0, 152304018>> :> <<9, 0>>
    @@ <<1523040180, 0, 152304018>> :> <<9, 152304017>>
    @@ <<152304016, 2, 152304018>> :> <<0, 152304018>>
    @@ <<304608035, 2, 152304018>> :> <<2, 0>>
    @@ <<456912053, 2, 152304018>> :> <<3, 0>>
    @@ <<1066128124, 2, 152304018>> :> <<6, 152304017>>
    @@ <<1218432142, 2, 152304018>> :> <<7, 152304017>>
    @@ <<1370736161, 2, 152304018>> :> <<9, 0>>
    @@ <<1523040178, 2, 152304018>> :> <<9, 152304017>>
    @@ <<304598037, 10000, 152304018>> :> <<2, 0>>
    @@ <<456902055, 10000, 152304018>> :> <<3, 0>>
    @@ <<609206072, 10000, 152304018>> :> <<3, 152304017>>
    @@ <<609206073, 10000, 152304018>> :> <<4, 0>>
    @@ <<761510090, 10000, 152304018>> :> <<4, 152304017>>
    @@ <<913814108, 10000, 152304018>> :> <<5, 152304017>>
    @@ <<1523030180, 10000, 152304018>> :> <<9, 152304017>>
    @@ <<303608037, 1000000, 152304018>> :> <<2, 0>>
    @@ <<455912055, 1000000, 152304018>> :> <<3, 0>>
    @@ <<760520090, 1000000, 152304018>> :> <<4, 152304017>>
    @@ <<1065128126, 1000000, 152304018>> :> <<6, 152304017>>
    @@ <<1065128127, 1000000, 152304018>> :> <<7, 0>>
    @@ <<1217432144, 1000000, 152304018>> :> <<7, 152304017>>
    @@ <<1369736162, 1000000, 152304018>> :> <<8, 152304017>>
    @@ <<1369736163, 1000000, 152304018>> :> <<9, 0>>
    @@ <<1522040180, 1000000, 152304018>> :> <<9, 152304017>>
    @@ <<1522040181, 1000000, 152304018>> :> <<10, 0>>
    @@ <<77304018, 75000000, 152304018>> :> <<0, 152304018>>
    @@ <<229608036, 75000000, 152304018>> :> <<1, 152304017>>
    @@ <<229608037, 75000000, 152304018>> :> <<2, 0>>
    @@ <<381912055, 75000000, 152304018>> :> <<3, 0>>
    @@ <<534216072, 75000000, 152304018>> :> <<3, 152304017>>
    @@ <<534216073, 75000000, 152304018>> :> <<4, 0>>
    @@ <<686520090, 75000000, 152304018>> :> <<4, 152304017>>
    @@ <<838824108, 75000000, 152304018>> :> <<5, 152304017>>
    @@ <<991128126, 75000000, 152304018>> :> <<6, 152304017>>
    @@ <<1143432144, 75000000, 152304018>> :> <<7, 152304017>>
    @@ <<1295736163, 75000000, 152304018>> :> <<9, 0>>
    @@ <<1448040180, 75000000, 152304018>> :> <<9, 152304017>>
    @@ <<304608037, 152304018, 152304018>> :> <<3, 0>>
    @@ <<913824108, 152304018, 152304018>> :> <<6, 152304017>>
    @@ <<1066128126, 152304018, 152304018>> :> <<7, 152304017>>
    @@ <<1218432145, 152304018, 152304018>> :> <<9, 0>>
    @@ <<1370736162, 152304018, 152304018>> :> <<9, 152304017>>
    @@ <<1370736163, 152304018, 152304018>> :> <<10, 0>>
    @@ <<1523040180, 152304018, 152304018>> :> <<10, 152304017>>
    @@ <<347881153, 0, 173940576>> :> <<2, 0>>
    @@ <<521821729, 0, 173940576>> :> <<3, 0>>
    @@ <<869702880, 0, 173940576>> :> <<4, 173940575>>
    @@ <<1043643457, 0, 173940576>> :> <<6, 0>>
    @@ <<1217584032, 0, 173940576>> :> <<6, 173940575>>
    @@ <<1391524609, 0, 173940576>> :> <<8, 0>>
    @@ <<1739405760, 0, 173940576>> :> <<9, 173940575>>
    @@ <<173940574, 2, 173940576>> :> <<0, 173940576>>
    @@ <<173940575, 2, 173940576>> :> <<1, 0>>
    @@ <<347881150, 2, 173940576>> :> <<1, 173940576>>
    @@ <<347881151, 2, 173940576>> :> <<2, 0>>
    @@ <<521821727, 2, 173940576>> :> <<3, 0>>
    @@ <<1043643454, 2, 173940576>> :> <<5, 173940575>>
    @@ <<1043643455, 2, 173940576>> :> <<6, 0>>
    @@ <<1217584030, 2, 173940576>> :> <<6, 173940575>>
    @@ <<1217584031, 2, 173940576>> :> <<7, 0>>
    @@ <<1391524606, 2, 173940576>> :> <<7, 173940575>>
    @@ <<1391524607, 2, 173940576>> :> <<8, 0>>
    @@ <<1565465183, 2, 173940576>> :> <<9, 0>>
    @@ <<1739405758, 2, 173940576>> :> <<9, 173940575>>
    @@ <<1739405759, 2, 173940576>> :> <<10, 0>>
    @@ <<347871153, 10000, 173940576>> :> <<2, 0>>
    @@ <<521811728, 10000, 173940576>> :> <<2, 173940575>>
    @@ <<521811729, 10000, 173940576>> :> <<3, 0>>
    @@ <<695752304, 10000, 173940576>> :> <<3, 173940575>>
    @@ <<695752305, 10000, 173940576>> :> <<4, 0>>
    @@ <<869692880, 10000, 173940576>> :> <<4, 173940575>>
    @@ <<869692881, 10000, 173940576>> :> <<5, 0>>
    @@ <<1217574032, 10000, 173940576>> :> <<6, 173940575>>
    @@ <<1391514609, 10000, 173940576>> :> <<8, 0>>
    @@ <<1739395761, 10000, 173940576>> :> <<10, 0>>
    @@ <<346881153, 1000000, 173940576>> :> <<2, 0>>
    @@ <<520821729, 1000000, 173940576>> :> <<3, 0>>
    @@ <<868702880, 1000000, 173940576>> :> <<4, 173940575>>
    @@ <<1042643456, 1000000, 173940576>> :> <<5, 173940575>>
    @@ <<1042643457, 1000000, 173940576>> :> <<6, 0>>
    @@ <<1216584032, 1000000, 173940576>> :> <<6, 173940575>>
    @@ <<1216584033, 1000000, 173940576>> :> <<7, 0>>
    @@ <<1390524608, 1000000, 173940576>> :> <<7, 173940575>>
    @@ <<1390524609, 1000000, 173940576>> :> <<8, 0>>
    @@ <<1564465184, 1000000, 173940576>> :> <<8, 173940575>>
    @@ <<1564465185, 1000000, 173940576>> :> <<9, 0>>
    @@ <<1738405760, 1000000, 173940576>> :> <<9, 173940575>>
    @@ <<1738405761, 1000000, 173940576>> :> <<10, 0>>
    @@ <<98940577, 75000000, 173940576>> :> <<1, 0>>
    @@ <<272881153, 75000000, 173940576>> :> <<2, 0>>
    @@ <<446821728, 75000000, 173940576>> :> <<2, 173940575>>
    @@ <<446821729, 75000000, 173940576>> :> <<3, 0>>
    @@ <<620762304, 75000000, 173940576>> :> <<3, 173940575>>
    @@ <<620762305, 75000000, 173940576>> :> <<4, 0>>
    @@ <<794702880, 75000000, 173940576>> :> <<4, 173940575>>
    @@ <<794702881, 75000000, 173940576>> :> <<5, 0>>
    @@ <<968643457, 75000000, 173940576>> :> <<6, 0>>
    @@ <<1142584032, 75000000, 173940576>> :> <<6, 173940575>>
    @@ <<1316524608, 75000000, 173940576>> :> <<7, 173940575>>
    @@ <<1316524609, 75000000, 173940576>> :> <<8, 0>>
    @@ <<1490465185, 75000000, 173940576>> :> <<9, 0>>
    @@ <<1664405760, 75000000, 173940576>> :> <<9, 173940575>>
    @@ <<1664405761, 75000000, 173940576>> :> <<10, 0>>
    @@ <<173940577, 173940576, 173940576>> :> <<2, 0>>
    @@ <<347881153, 173940576, 173940576>> :> <<3, 0>>
    @@ <<869702880, 173940576, 173940576>> :> <<5, 173940575>>
    @@ <<869702881, 173940576, 173940576>> :> <<6, 0>>
    @@ <<1043643456, 173940576, 173940576>> :> <<6, 173940575>>
    @@ <<1391524609, 173940576, 173940576>> :> <<9, 0>>
    @@ <<1565465184, 173940576, 173940576>> :> <<9, 173940575>>
    @@ <<1565465185, 173940576, 173940576>> :> <<10, 0>>

BreachUnits(lamports, breach_remain, breach_price) ==
    IF <<lamports, breach_remain, breach_price>> \in DOMAIN SplitFloatTable
    THEN SplitFloatTable[<<lamports, breach_remain, breach_price>>][1]
    ELSE (lamports + breach_remain) \div breach_price

BreachRemain(lamports, breach_remain, breach_price) ==
    IF <<lamports, breach_remain, breach_price>> \in DOMAIN SplitFloatTable
    THEN SplitFloatTable[<<lamports, breach_remain, breach_price>>][2]
    ELSE (lamports + breach_remain) % breach_price

(***************************************************************************)
(* Puzzle engine (processor.rs 621-680, 717-730).                          *)
(***************************************************************************)
MagicTemplate == <<33, 232>> \o Zeros(21)

\* clock.unix_timestamp: the host's time is a function of the slot
UnixTimestamp(clock) == 1000 + clock.slot

create_limit_break(clock, instance, instance_id, claimable_tokens, magic_len) ==
    LET data_vec ==
            instance_id \o instance.token_mint_id
            \o ToLeBytes(instance.breach_count, 4)
            \o ToLeBytes(instance.breach_price, 8)
            \o ToLeBytes(instance.limit_count, 4)
            \o ToLeBytes(clock.slot, 8)
            \o ToLeBytes(clock.epoch, 8)
            \o ToLeBytes(UnixTimestamp(clock), 8)
    IN <<claimable_tokens>> \o hash(data_vec) \o <<magic_len>> \o MagicTemplate

RECURSIVE HashPuzzleLoop(_, _, _, _, _, _)
\* the loop of create_hash_puzzles from counter i down to 0:
\* <<out_vec, doubles>> given the chain hash_vec so far
HashPuzzleLoop(i, hash_vec, doubles, out_vec, claimable_tokens, magic_len) ==
    IF i < 0 THEN <<out_vec, doubles>>
    ELSE
        LET chain == Append(hash_vec, i)
            tokens == IF doubles > 0
                      THEN (claimable_tokens * 2) % 256
                      ELSE claimable_tokens
            left == IF doubles > 0 THEN doubles - 1 ELSE doubles
        IN HashPuzzleLoop(i - 1, chain, left,
               out_vec \o <<tokens>> \o hash(chain) \o <<magic_len>>
                   \o MagicTemplate,
               claimable_tokens, magic_len)

create_hash_puzzles(clock, count, instance, instance_id, lamports_paid, claimable_tokens, magic_len) ==
    LET data_vec ==
            instance_id \o instance.token_mint_id
            \o ToLeBytes(lamports_paid, 8)
            \o ToLeBytes(instance.breach_count, 4)
            \o ToLeBytes(instance.breach_price, 8)
            \o ToLeBytes(clock.slot, 8)
            \o ToLeBytes(clock.epoch, 8)
            \o ToLeBytes(UnixTimestamp(clock), 8)
    IN HashPuzzleLoop(count - 1, hash(data_vec), instance.token_doubles,
                      << >>, claimable_tokens, magic_len)

\* check_claim comparing one byte less than the magic length
check_claim_short(claim_id, pool_id, work) ==
    LET sha == SubSeq(work, 2, 33)
        magic == SubSeq(work, 35, 33 + work[34])
        hash_vec == hash(sha \o claim_id \o pool_id)
    IN StartsWith(hash_vec, magic)

\* check_claim: TRUE for Ok(()), FALSE for IncorrectClaimSolution
check_claim(claim_id, pool_id, work) ==
    LET rest1 == SubSeq(work, 2, Len(work))
        sha == SubSeq(rest1, 1, 32)
        rest2 == SubSeq(rest1, 33, Len(rest1))
        mag_len == SubSeq(rest2, 1, 1)
        rest3 == SubSeq(rest2, 2, Len(rest2))
        magic == SubSeq(rest3, 1, mag_len[1])
        hash_vec == hash(sha \o claim_id \o pool_id)
    IN StartsWith(hash_vec, magic)

(***************************************************************************)
(* Work cache (state.rs 78-105).                                           *)
(***************************************************************************)
\* the first count chunks of WORK_BYTES bytes of work
Chunks(work, count) ==
    [k \in 1..count |->
        SubSeq(work, (k - 1) * WORK_BYTES + 1, k * WORK_BYTES)]

\* add_work: [ok |-> FALSE] is Err(WorkLimitExceeded)
add_work(self_work, work) ==
    LET count == Len(work) \div WORK_BYTES
    IN IF Len(self_work) + count <= MAX_COUNT
       THEN [ok |-> TRUE, work |-> self_work \o Chunks(work, count)]
       ELSE [ok |-> FALSE, work |-> self_work]

\* Vec::remove(index): the later entries move down by one
remove_work_shift(self_work, index) ==
    [i \in 1..(Len(self_work) - 1) |->
        IF i <= index THEN self_work[i] ELSE self_work[i + 1]]

\* remove_work leaving the list as it is
remove_work_none(self_work, index) == self_work

\* Vec::swap_remove(index), index from 0
remove_work(self_work, index) ==
    LET n == Len(self_work)
    IN [i \in 1..(n - 1) |->
           IF i = index + 1 THEN self_work[n] ELSE self_work[i]]

\* get_work_free_space without the reserved slot
get_work_free_space_unreserved(self_work) == MAX_COUNT - Len(self_work)

get_work_free_space(self_work) == MAX_COUNT - Len(self_work) - 1

(***************************************************************************)
(* Codec (state.rs 123-280).  The buffer is a sequence of STATE_SPACE      *)
(* bytes; the regions follow each other in the order of mut_array_refs.    *)
(***************************************************************************)
OFF_NONCE == INITIALIZED_BYTES
OFF_SLOT == OFF_NONCE + NONCE_BYTES
OFF_EPOCH == OFF_SLOT + SLOT_BYTES
OFF_DIFFICULTY == OFF_EPOCH + EPOCH_BYTES
OFF_LAMPORTS == OFF_DIFFICULTY + DIFFICULTY_BYTES
OFF_PRICE == OFF_LAMPORTS + LAMPORTS_BYTES
OFF_REMAIN == OFF_PRICE + PRICE_BYTES
OFF_COUNT == OFF_REMAIN + REMAIN_BYTES
OFF_COUNT_PER_WINDOW == OFF_COUNT + COUNT_BYTES
OFF_CACHED == OFF_COUNT_PER_WINDOW + COUNT_PER_WINDOW_BYTES
OFF_TOKEN_MINT_ID == OFF_CACHED + CACHED_BYTES
OFF_TOKEN_DOUBLES == OFF_TOKEN_MINT_ID + TOKEN_MINT_ID_BYTES
OFF_LB_COUNT == OFF_TOKEN_DOUBLES + TOKEN_DOUBLES_BYTES
OFF_LB_PER_EPOCH == OFF_LB_COUNT + LB_COUNT_BYTES
OFF_ADMIN_ONE == OFF_LB_PER_EPOCH + LB_PER_EPOCH_BYTES
OFF_ADMIN_TWO == OFF_ADMIN_ONE + ADMIN_ONE_BYTES
OFF_WITHDRAW == OFF_ADMIN_TWO + ADMIN_TWO_BYTES
OFF_LB == OFF_WITHDRAW + WITHDRAW_BYTES
OFF_VEC_COUNT == OFF_LB + LB_BYTES
OFF_VEC_DATA_LENGTH == OFF_VEC_COUNT + VEC_COUNT
OFF_VEC_DATA == OFF_VEC_DATA_LENGTH + VEC_DATA_LENGTH

\* the region of size bytes at offset off
Region(buf, off, size) == SubSeq(buf, off + 1, off + size)

\* pack_vec_of_vec writing the entries last to first
pack_vec_of_vec_reversed(args) ==
    [j \in 1..(Len(args) * WORK_BYTES) |->
        args[Len(args) - ((j - 1) \div WORK_BYTES)][((j - 1) % WORK_BYTES) + 1]]

\* the first WORK_BYTES bytes of every entry, concatenated
pack_vec_of_vec(args) ==
    [j \in 1..(Len(args) * WORK_BYTES) |->
        args[((j - 1) \div WORK_BYTES) + 1][((j - 1) % WORK_BYTES) + 1]]

\* count times: split WORK_BYTES bytes off the rest of the slice
unpack_vec_of_vec(slice, count) ==
    [k \in 1..count |->
        SubSeq(slice, (k - 1) * WORK_BYTES + 1, k * WORK_BYTES)]

\* pack_into_slice panics where a copy would read past its source or the
\* work data do not fit
PackPanics(self) ==
    \/ Len(self.limit_break) < LB_BYTES
    \/ \E i \in 1..Len(self.work) : Len(self.work[i]) < WORK_BYTES
    \/ ~(Len(self.work) * WORK_BYTES < VEC_DATA)

\* pack_into_slice on a buffer whose work region beyond the data written is
\* zero (those bytes are never read back: unpack reads vec_count entries)
pack_into_slice(self) ==
    LET data == pack_vec_of_vec(self.work)
        data_len == Len(data)
    IN <<IF self.is_initialized THEN 1 ELSE 0>>
       \o <<self.nonce>>
       \o ToLeBytes(self.current_slot, SLOT_BYTES)
       \o ToLeBytes(self.current_epoch, EPOCH_BYTES)
       \o <<self.difficulty>>
       \o U64ToLeBytes(self.lamports)
       \o ToLeBytes(self.breach_price, PRICE_BYTES)
       \o ToLeBytes(self.breach_remain, REMAIN_BYTES)
       \o ToLeBytes(self.breach_count, COUNT_BYTES)
       \o ToLeBytes(self.breach_count_this_window, COUNT_PER_WINDOW_BYTES)
       \o ToLeBytes(self.work_cached, CACHED_BYTES)
       \o self.token_mint_id
       \o ToLeBytes(self.token_doubles, TOKEN_DOUBLES_BYTES)
       \o ToLeBytes(self.limit_count, LB_COUNT_BYTES)
       \o ToLeBytes(self.limit_breaks_this_epoch, LB_PER_EPOCH_BYTES)
       \o self.admin_one_id
       \o self.admin_two_id
       \o self.withdraw_id
       \o SubSeq(self.limit_break, 1, LB_BYTES)
       \o <<Len(self.work) % 256>>
       \o ToLeBytes(data_len, VEC_DATA_LENGTH)
       \o data \o Zeros(VEC_DATA - data_len)

unpack_from_slice(input) ==
    LET is_init == Region(input, 0, INITIALIZED_BYTES)[1] = 1
        token_mint_id == Region(input, OFF_TOKEN_MINT_ID, TOKEN_MINT_ID_BYTES)
        admin_one_id == Region(input, OFF_ADMIN_ONE, ADMIN_ONE_BYTES)
        admin_two_id == Region(input, OFF_ADMIN_TWO, ADMIN_TWO_BYTES)
        withdraw_id == Region(input, OFF_WITHDRAW, WITHDRAW_BYTES)
    IN IF ~is_init
       THEN [is_initialized |-> FALSE,
             nonce |-> 0,
             current_slot |-> 0,
             current_epoch |-> 0,
             difficulty |-> 0,
             lamports |-> U64(0),
             breach_price |-> 0,
             breach_remain |-> 0,
             breach_count |-> 0,
             breach_count_this_window |-> 0,
             work_cached |-> 0,
             token_mint_id |-> token_mint_id,
             token_doubles |-> 0,
             limit_count |-> 0,
             limit_breaks_this_epoch |-> 0,
             admin_one_id |-> admin_one_id,
             admin_two_id |-> admin_two_id,
             withdraw_id |-> withdraw_id,
             limit_break |-> << >>,
             work |-> << >>]
       ELSE [is_initialized |-> TRUE,
             nonce |-> Region(input, OFF_NONCE, NONCE_BYTES)[1],
             current_slot |->
                 FromLeBytes(Region(input, OFF_SLOT, SLOT_BYTES)),
             current_epoch |->
                 FromLeBytes(Region(input, OFF_EPOCH, EPOCH_BYTES)),
             difficulty |-> Region(input, OFF_DIFFICULTY, DIFFICULTY_BYTES)[1],
             lamports |->
                 U64FromLeBytes(Region(input, OFF_LAMPORTS, LAMPORTS_BYTES)),
             breach_price |->
                 FromLeBytes(Region(input, OFF_PRICE, PRICE_BYTES)),
             breach_remain |->
                 FromLeBytes(Region(input, OFF_REMAIN, REMAIN_BYTES)),
             breach_count |->
                 I32FromLeBytes(Region(input, OFF_COUNT, COUNT_BYTES)),
             breach_count_this_window |->
                 FromLeBytes(Region(input, OFF_COUNT_PER_WINDOW,
                                    COUNT_PER_WINDOW_BYTES)),
             work_cached |->
                 FromLeBytes(Region(input, OFF_CACHED, CACHED_BYTES)),
             token_mint_id |-> token_mint_id,
             token_doubles |->
                 FromLeBytes(Region(input, OFF_TOKEN_DOUBLES,
                                    TOKEN_DOUBLES_BYTES)),
             limit_count |->
                 FromLeBytes(Region(input, OFF_LB_COUNT, LB_COUNT_BYTES)),
             limit_breaks_this_epoch |->
                 FromLeBytes(Region(input, OFF_LB_PER_EPOCH,
                                    LB_PER_EPOCH_BYTES)),
             admin_one_id |-> admin_one_id,
             admin_two_id |-> admin_two_id,
             withdraw_id |-> withdraw_id,
             limit_break |-> Region(input, OFF_LB, LB_BYTES),
             work |->
                 unpack_vec_of_vec(Region(input, OFF_VEC_DATA, VEC_DATA),
                                   Region(input, OFF_VEC_COUNT, VEC_COUNT)[1])]

\* the decoded image of the bytes that HihiState::pack(instance, ..) stores
Stored(instance) == unpack_from_slice(pack_into_slice(instance))

(***************************************************************************)
(* The processor (processor.rs 31-561).                                    *)
(*                                                                         *)
(* A handler is an operator from the decoded account, the host clock and   *)
(* the call (the supplied accounts and payload) to its outcome:            *)
(*   err       "Ok" or the error returned ("Panic" for a fatal abort)      *)
(*   packed    whether HihiState::pack was executed before returning       *)
(*   instance  the handler's local HihiState at the point of return        *)
(*   minted    tokens minted to the destination token account             *)
(*   paid_in   lamports transferred from the payer to the authority        *)
(*   paid_out  lamports (two limbs) transferred out of the authority       *)
(*   paid_to   the key that received paid_out                              *)
(*   units     breach units purchased                                      *)
(***************************************************************************)
Outcome(err, packed, instance, minted, paid_in, paid_out, paid_to, units) ==
    [err |-> err, packed |-> packed, instance |-> instance,
     minted |-> minted, paid_in |-> paid_in, paid_out |-> paid_out,
     paid_to |-> paid_to, units |-> units]

Fail(err, instance) ==
    Outcome(err, FALSE, instance, 0, 0, U64(0), << >>, 0)

\* HihiState::pack(instance, ..) and Ok(()) as the last step of a handler
PackAndReturn(instance, minted, paid_in, paid_out, paid_to, units) ==
    IF PackPanics(instance) THEN Fail("Panic", instance)
    ELSE Outcome("Ok", TRUE, instance, minted, paid_in, paid_out, paid_to,
                 units)

\* Processor::authority_id: the program address derived from the instance
\* key and the nonce
authority_id(my_info, nonce) == Pubkey(128 + ((my_info[1] + nonce) % 128))

\* check_accounts: [err, valid]
check_accounts(instance, token_program_id, token_mint_id, to_info) ==
    IF token_program_id # "spl_token" THEN [err |-> "InvalidOwner", valid |-> FALSE]
    ELSE IF token_mint_id # instance.token_mint_id
    THEN [err |-> "InvalidTokenMint", valid |-> FALSE]
    ELSE IF to_info.owner # "spl_token" THEN [err |-> "Ok", valid |-> FALSE]
    ELSE IF to_info.mint # instance.token_mint_id
    THEN [err |-> "Ok", valid |-> FALSE]
    ELSE [err |-> "Ok", valid |-> TRUE]

\* roll_window one slot late
roll_window_late(instance, clock) ==
    IF clock.slot - instance.current_slot > BREACH_WINDOW
    THEN [instance EXCEPT
             !.breach_count_this_window = 0,
             !.current_slot = clock.slot,
             !.breach_price = calculate_price(instance.breach_count, START_PRICE)]
    ELSE instance

\* the pricing-window rollover of process_breach and of the limit break
roll_window(instance, clock) ==
    IF clock.slot - instance.current_slot >= BREACH_WINDOW
    THEN [instance EXCEPT
             !.breach_count_this_window = 0,
             !.current_slot = clock.slot,
             !.breach_price = calculate_price(instance.breach_count, START_PRICE)]
    ELSE instance

\* initialize_finish with a first puzzle of the starting difficulty
initialize_finish_start_diff(instance, clock, call) ==
    PackAndReturn(
        [instance EXCEPT
            !.limit_break =
                create_limit_break(clock, instance, INSTANCE_ID,
                    LB_TOKEN_COUNT, instance.difficulty),
            !.nonce = call.nonce,
            !.is_initialized = TRUE],
        0, 0, U64(0), << >>, 0)

\* the second half of process_initialize (processor.rs 118-134): the first
\* limit-break puzzle, the nonce, the initialized flag, the write-back
initialize_finish(instance, clock, call) ==
    PackAndReturn(
        [instance EXCEPT
            !.limit_break =
                create_limit_break(clock, instance, INSTANCE_ID,
                    LB_TOKEN_COUNT, instance.difficulty + LB_DIFF),
            !.nonce = call.nonce,
            !.is_initialized = TRUE],
        0, 0, U64(0), << >>, 0)

\* process_initialize without the test of the initialized flag
process_initialize_again(account, clock, call) ==
    IF call.acct # "ok" THEN Fail("InvalidOwner", account)
    ELSE IF ~call.rent_exempt THEN Fail("NotRentExempt", account)
    ELSE initialize_finish(
             [account EXCEPT
                 !.admin_one_id = call.admin_one,
                 !.admin_two_id = call.admin_two,
                 !.withdraw_id = call.withdraw,
                 !.token_mint_id = call.token_mint,
                 !.current_slot = clock.slot,
                 !.current_epoch = clock.epoch,
                 !.breach_price =
                     calculate_price(account.breach_count, START_PRICE),
                 !.difficulty = START_DIFF],
             clock, call)

process_initialize(account, clock, call) ==
    IF call.acct # "ok" THEN Fail("InvalidOwner", account)
    ELSE IF account.is_initialized THEN Fail("AlreadyInitialized", account)
    ELSE IF ~call.rent_exempt THEN Fail("NotRentExempt", account)
    ELSE initialize_finish(
             [account EXCEPT
                 !.admin_one_id = call.admin_one,
                 !.admin_two_id = call.admin_two,
                 !.withdraw_id = call.withdraw,
                 !.token_mint_id = call.token_mint,
                 !.current_slot = clock.slot,
                 !.current_epoch = clock.epoch,
                 !.breach_price =
                     calculate_price(account.breach_count, START_PRICE),
                 !.difficulty = START_DIFF],
             clock, call)

\* the reward tier of a Breach (processor.rs 176-182)
breach_base_tokens(instance) ==
    LET b_tokens == instance.breach_count
                    - instance.breach_count_this_window
                    - instance.work_cached
    IN calculate_tokens(IF b_tokens < 0 THEN 0 ELSE b_tokens)

\* the result of the purchase branch of process_breach
Purchase(err, instance, breaches, minted) ==
    [err |-> err, instance |-> instance, breaches |-> breaches,
     minted |-> minted]

\* the limit-break puzzle is replaced after a purchase of at least one unit
\* (processor.rs 247-255)
purchase_limit_break(instance, clock, breaches) ==
    IF breaches > 0
    THEN [instance EXCEPT
             !.limit_break =
                 create_limit_break(clock, instance, INSTANCE_ID,
                     LB_TOKEN_COUNT, instance.difficulty + LB_DIFF)]
    ELSE instance

\* purchase_units adding the doubling credits whatever the destination
purchase_units_credits_all(instance, clock, call, base_tokens, valid_to_id, breaches) ==
    Purchase("Ok",
        purchase_limit_break(
            [instance EXCEPT
                !.breach_remain =
                    BreachRemain(call.lamports, instance.breach_remain,
                                 instance.breach_price),
                !.token_doubles = @ + breaches],
            clock, breaches),
        breaches,
        IF valid_to_id THEN base_tokens * breaches ELSE 0)

\* the units bought, the remainder carried, the mint or the doubles
\* (processor.rs 221-255)
purchase_units(instance, clock, call, base_tokens, valid_to_id, breaches) ==
    Purchase("Ok",
        purchase_limit_break(
            [instance EXCEPT
                !.breach_remain =
                    BreachRemain(call.lamports, instance.breach_remain,
                                 instance.breach_price),
                !.token_doubles = IF valid_to_id THEN @ ELSE @ + breaches],
            clock, breaches),
        breaches,
        IF valid_to_id THEN base_tokens * breaches ELSE 0)

\* purchase_capped with a cap of eleven units
purchase_capped_eleven(instance, clock, call, base_tokens, valid_to_id) ==
    IF call.lamports > instance.breach_price * 11
    THEN Purchase("InsufficientFundsForTransaction", instance, 0, 0)
    ELSE purchase_units(instance, clock, call, base_tokens, valid_to_id,
             BreachUnits(call.lamports, instance.breach_remain,
                         instance.breach_price))

\* the cap of ten units at the price in force after the rollover
\* (processor.rs 217-228)
purchase_capped(instance, clock, call, base_tokens, valid_to_id) ==
    IF call.lamports > instance.breach_price * 10
    THEN Purchase("InsufficientFundsForTransaction", instance, 0, 0)
    ELSE purchase_units(instance, clock, call, base_tokens, valid_to_id,
             BreachUnits(call.lamports, instance.breach_remain,
                         instance.breach_price))

\* the token accounts are checked, then the pricing window rolls over
\* (processor.rs 204-215)
purchase_checked(instance, clock, call, base_tokens, chk) ==
    IF chk.err # "Ok" THEN Purchase(chk.err, instance, 0, 0)
    ELSE purchase_capped(roll_window(instance, clock), clock, call,
                         base_tokens, chk.valid)

purchase_credited(instance, clock, call, base_tokens) ==
    purchase_checked(instance, clock, call, base_tokens,
        check_accounts(instance, call.token_program, call.token_mint,
                       call.to_token))

\* breach_purchase crediting the whole payment to the treasury
breach_purchase_credits_all(instance, clock, call, base_tokens) ==
    purchase_credited(
        [instance EXCEPT !.lamports = U64Add(@, U64(call.lamports))],
        clock, call, base_tokens)

\* the purchase branch of process_breach (processor.rs 186-256): the payment
\* is transferred and three quarters of it credited to the treasury
breach_purchase(instance, clock, call, base_tokens) ==
    purchase_credited(
        [instance EXCEPT
            !.lamports = U64Add(@, U64((call.lamports \div 4) * 3))],
        clock, call, base_tokens)

\* breach_cache issuing puzzles only for the units just bought
breach_cache_no_drain(work_cached, breaches, free) ==
    IF free # 0
    THEN LET count1 == IF breaches <= 10 THEN breaches ELSE 10
             remain == count1 - free
         IN IF remain > 0
            THEN [count |-> count1 - remain,
                  work_cached |-> work_cached + (breaches - count1) + remain]
            ELSE [count |-> count1,
                  work_cached |-> work_cached + (breaches - count1)]
    ELSE [count |-> 0, work_cached |-> work_cached + breaches]

\* breach_cache forgetting the units that do not fit into the free space
breach_cache_drops(work_cached, breaches, free) ==
    IF free # 0
    THEN LET total == breaches + work_cached
             cached1 == IF total <= 10 THEN 0
                        ELSE work_cached - (10 - breaches)
             count1 == IF total <= 10 THEN total ELSE 10
             remain == count1 - free
         IN IF remain > 0
            THEN [count |-> count1 - remain, work_cached |-> cached1]
            ELSE [count |-> count1, work_cached |-> cached1]
    ELSE [count |-> 0, work_cached |-> work_cached + breaches]

\* breach_cache issuing the whole backlog at once
breach_cache_uncapped(work_cached, breaches, free) ==
    IF free # 0
    THEN LET total == breaches + work_cached
             remain == total - free
         IN IF remain > 0
            THEN [count |-> total - remain, work_cached |-> remain]
            ELSE [count |-> total, work_cached |-> 0]
    ELSE [count |-> 0, work_cached |-> work_cached + breaches]

\* breach_cache holding one unit back whenever it issues puzzles
breach_cache_holds_back(work_cached, breaches, free) ==
    IF free # 0
    THEN LET total == breaches + work_cached
             cached1 == IF total <= 10 THEN 0
                        ELSE work_cached - (10 - breaches)
             count1 == IF total <= 10 THEN total ELSE 10
             remain == IF count1 - free > 0 THEN count1 - free
                       ELSE IF count1 > 0 THEN 1 ELSE 0
         IN [count |-> count1 - remain, work_cached |-> cached1 + remain]
    ELSE [count |-> 0, work_cached |-> work_cached + breaches]

\* how many puzzles to issue now and the backlog left (processor.rs 258-276,
\* 290-292): [count, work_cached]
breach_cache(work_cached, breaches, free) ==
    IF free # 0
    THEN LET total == breaches + work_cached
             cached1 == IF total <= 10 THEN 0
                        ELSE work_cached - (10 - breaches)
             count1 == IF total <= 10 THEN total ELSE 10
             remain == count1 - free
         IN IF remain > 0
            THEN [count |-> count1 - remain, work_cached |-> cached1 + remain]
            ELSE [count |-> count1, work_cached |-> cached1]
    ELSE [count |-> 0, work_cached |-> work_cached + breaches]

\* the overflow check, the counters and the write-back (processor.rs 294-302)
breach_counts(instance, breaches, minted, paid_in) ==
    IF add_i32(instance.breach_count, breaches) > I32_MAX
    THEN Fail("InvalidInstruction", instance)
    ELSE PackAndReturn(
             [instance EXCEPT
                 !.breach_count = add_i32(@, breaches),
                 !.breach_count_this_window = @ + breaches],
             minted, paid_in, U64(0), << >>, breaches)

\* breach_add_work leaving the doubling credits as they were before the
\* puzzles were made
breach_add_work_keeps_doubles(instance, breaches, minted, paid_in, work, added) ==
    IF ~added.ok THEN Fail("WorkLimitExceeded", instance)
    ELSE breach_counts([instance EXCEPT !.work = added.work],
                       breaches, minted, paid_in)

\* instance.add_work(work.0)? and the doubles left (processor.rs 288-289)
breach_add_work(instance, breaches, minted, paid_in, work, added) ==
    IF ~added.ok THEN Fail("WorkLimitExceeded", instance)
    ELSE breach_counts(
             [instance EXCEPT !.work = added.work, !.token_doubles = work[2]],
             breaches, minted, paid_in)

breach_puzzles(instance, breaches, minted, paid_in, work) ==
    breach_add_work(instance, breaches, minted, paid_in, work,
                    add_work(instance.work, work[1]))

\* the puzzles are issued if the list has free space (processor.rs 258-292)
breach_issue(instance, clock, call, base_tokens, breaches, minted, paid_in, free, count) ==
    IF free # 0
    THEN breach_puzzles(instance, breaches, minted, paid_in,
             create_hash_puzzles(clock, count, instance, INSTANCE_ID,
                 call.lamports, base_tokens, instance.difficulty))
    ELSE breach_counts(instance, breaches, minted, paid_in)

breach_cached(p, clock, call, base_tokens, paid_in, free, c) ==
    breach_issue([p.instance EXCEPT !.work_cached = c.work_cached], clock,
                 call, base_tokens, p.breaches, p.minted, paid_in, free,
                 c.count)

breach_free(p, clock, call, base_tokens, paid_in, free) ==
    breach_cached(p, clock, call, base_tokens, paid_in, free,
                  breach_cache(p.instance.work_cached, p.breaches, free))

\* breach_after_purchase writing the record back before it returns the error
\* of the purchase
breach_after_purchase_packs(p, clock, call, base_tokens, paid_in) ==
    IF p.err # "Ok"
    THEN Outcome(p.err, TRUE, p.instance, 0, 0, U64(0), << >>, 0)
    ELSE breach_free(p, clock, call, base_tokens, paid_in,
                     get_work_free_space(p.instance.work))

\* process_breach from the purchase outcome p on (processor.rs 258-302)
breach_after_purchase(p, clock, call, base_tokens, paid_in) ==
    IF p.err # "Ok" THEN Fail(p.err, p.instance)
    ELSE breach_free(p, clock, call, base_tokens, paid_in,
                     get_work_free_space(p.instance.work))

\* breach_accepted taking the payment at every difficulty
breach_accepted_always_buys(account, clock, call, base_tokens) ==
    breach_after_purchase(
        breach_purchase(account, clock, call, base_tokens),
        clock, call, base_tokens, call.lamports)

\* process_breach once the accounts are accepted (processor.rs 175-302)
breach_accepted(account, clock, call, base_tokens) ==
    IF account.difficulty + LB_DIFF <= MAX_DIFF
    THEN breach_after_purchase(
             breach_purchase(account, clock, call, base_tokens),
             clock, call, base_tokens, call.lamports)
    ELSE breach_after_purchase(Purchase("Ok", account, 0, 0), clock, call,
                               base_tokens, 0)

\* process_breach with the minimum payment checked after the accounts
process_breach_accounts_first(account, clock, call) ==
    IF call.acct = "bad_owner" THEN Fail("InvalidOwner", account)
    ELSE IF call.acct = "not_signer" THEN Fail("InvalidInstruction", account)
    ELSE IF ~account.is_initialized THEN Fail("NotInitialized", account)
    ELSE IF call.authority # authority_id(INSTANCE_ID, account.nonce)
    THEN Fail("InvalidOwner", account)
    ELSE IF call.lamports < MIN_LAMPORTS
    THEN Fail("InsufficientFundsForTransaction", account)
    ELSE breach_accepted(account, clock, call, breach_base_tokens(account))

process_breach(account, clock, call) ==
    IF call.lamports < MIN_LAMPORTS
    THEN Fail("InsufficientFundsForTransaction", account)
    ELSE IF call.acct = "bad_owner" THEN Fail("InvalidOwner", account)
    ELSE IF call.acct = "not_signer" THEN Fail("InvalidInstruction", account)
    ELSE IF ~account.is_initialized THEN Fail("NotInitialized", account)
    ELSE IF call.authority # authority_id(INSTANCE_ID, account.nonce)
    THEN Fail("InvalidOwner", account)
    ELSE breach_accepted(account, clock, call, breach_base_tokens(account))

\* the index (from 0) of the first entry of work equal to e, or -1
find_work(work, e) ==
    IF \E i \in 1..Len(work) : work[i] = e
    THEN (CHOOSE i \in 1..Len(work) :
              work[i] = e /\ \A j \in 1..(i - 1) : work[j] # e) - 1
    ELSE -1

\* the Claim branch of process_claim_and_breaks (processor.rs 358-386)
claim_branch(instance, call, work) ==
    LET index == find_work(instance.work, work)
    IN IF index = -1 THEN Fail("InvalidClaimHash", instance)
       ELSE IF ~check_claim(call.claim_id, call.pool_id, work)
       THEN Fail("IncorrectClaimSolution", instance)
       ELSE IF call.authority # authority_id(INSTANCE_ID, instance.nonce)
       THEN Fail("CpiFailed", instance)
       ELSE PackAndReturn(
                [instance EXCEPT !.work = remove_work(instance.work, index)],
                work[1], 0, U64(0), << >>, 0)

\* roll_epoch raising the difficulty by two
roll_epoch_by_two(instance, clock, authority_lamports) ==
    IF clock.epoch - instance.current_epoch > 0
    THEN LET raised == instance.limit_breaks_this_epoch > LB_DIFF_INCREASE
             difficulty == instance.difficulty + 2
             terminal == difficulty + LB_DIFF > MAX_DIFF
             amount == U64FivePercent(instance.lamports)
             i1 == IF ~raised THEN instance
                   ELSE IF terminal
                   THEN [instance EXCEPT !.difficulty = difficulty,
                                         !.lamports = U64(0)]
                   ELSE [instance EXCEPT
                            !.difficulty = difficulty,
                            !.lamports = U64Sub(instance.lamports, amount)]
         IN [instance |-> [i1 EXCEPT !.limit_breaks_this_epoch = 0,
                                     !.current_epoch = clock.epoch],
             paid_out |-> IF ~raised THEN U64(0)
                          ELSE IF terminal THEN authority_lamports
                          ELSE amount]
    ELSE [instance |-> instance, paid_out |-> U64(0)]

\* roll_epoch raising the difficulty after five limit breaks already
roll_epoch_at_five(instance, clock, authority_lamports) ==
    IF clock.epoch - instance.current_epoch > 0
    THEN LET raised == instance.limit_breaks_this_epoch >= LB_DIFF_INCREASE
             difficulty == instance.difficulty + 1
             terminal == difficulty + LB_DIFF > MAX_DIFF
             amount == U64FivePercent(instance.lamports)
             i1 == IF ~raised THEN instance
                   ELSE IF terminal
                   THEN [instance EXCEPT !.difficulty = difficulty,
                                         !.lamports = U64(0)]
                   ELSE [instance EXCEPT
                            !.difficulty = difficulty,
                            !.lamports = U64Sub(instance.lamports, amount)]
         IN [instance |-> [i1 EXCEPT !.limit_breaks_this_epoch = 0,
                                     !.current_epoch = clock.epoch],
             paid_out |-> IF ~raised THEN U64(0)
                          ELSE IF terminal THEN authority_lamports
                          ELSE amount]
    ELSE [instance |-> instance, paid_out |-> U64(0)]

\* the epoch rollover of the limit break (processor.rs 426-455):
\* [instance, paid_out]
roll_epoch(instance, clock, authority_lamports) ==
    IF clock.epoch - instance.current_epoch > 0
    THEN LET raised == instance.limit_breaks_this_epoch > LB_DIFF_INCREASE
             difficulty == instance.difficulty + 1
             terminal == difficulty + LB_DIFF > MAX_DIFF
             amount == U64FivePercent(instance.lamports)
             i1 == IF ~raised THEN instance
                   ELSE IF terminal
                   THEN [instance EXCEPT !.difficulty = difficulty,
                                         !.lamports = U64(0)]
                   ELSE [instance EXCEPT
                            !.difficulty = difficulty,
                            !.lamports = U64Sub(instance.lamports, amount)]
         IN [instance |-> [i1 EXCEPT !.limit_breaks_this_epoch = 0,
                                     !.current_epoch = clock.epoch],
             paid_out |-> IF ~raised THEN U64(0)
                          ELSE IF terminal THEN authority_lamports
                          ELSE amount]
    ELSE [instance |-> instance, paid_out |-> U64(0)]

\* the counters of a limit break (processor.rs 461-466)
limit_break_counts(instance, count) ==
    [instance EXCEPT
        !.breach_count = add_i32(@, count),
        !.breach_count_this_window = @ + count,
        !.limit_breaks_this_epoch = @ + 1,
        !.limit_count = @ + 1]

\* limit_break_next issuing a puzzle at every difficulty
limit_break_next_always(instance, clock) ==
    [instance EXCEPT
        !.limit_break =
            create_limit_break(clock, instance, INSTANCE_ID,
                LB_TOKEN_COUNT, instance.difficulty + LB_DIFF)]

\* the next limit-break puzzle (processor.rs 468-476)
limit_break_next(instance, clock) ==
    IF instance.difficulty + LB_DIFF <= MAX_DIFF
    THEN [instance EXCEPT
             !.limit_break =
                 create_limit_break(clock, instance, INSTANCE_ID,
                     LB_TOKEN_COUNT, instance.difficulty + LB_DIFF)]
    ELSE instance

\* limit_break_rolled minting the count that is added to breach_count
limit_break_rolled_mints_count(e, clock, authority_lamports, call, count, reward) ==
    IF ~U64Le(e.paid_out, authority_lamports)
    THEN Fail("CpiFailed", e.instance)
    ELSE IF e.instance.limit_breaks_this_epoch > LB_MAX_PER_EPOCH
    THEN Fail("WorkLimitExceeded", e.instance)
    ELSE PackAndReturn(
             limit_break_next(limit_break_counts(e.instance, count), clock),
             count, 0, e.paid_out, call.to_lamports, 0)

\* limit_break_rolled sending the payout to the stored withdraw identity
limit_break_rolled_pays_withdraw(e, clock, authority_lamports, call, count, reward) ==
    IF ~U64Le(e.paid_out, authority_lamports)
    THEN Fail("CpiFailed", e.instance)
    ELSE IF e.instance.limit_breaks_this_epoch > LB_MAX_PER_EPOCH
    THEN Fail("WorkLimitExceeded", e.instance)
    ELSE PackAndReturn(
             limit_break_next(limit_break_counts(e.instance, count), clock),
             reward, 0, e.paid_out, e.instance.withdraw_id, 0)

\* the limit break from the epoch rollover e on (processor.rs 426-479)
limit_break_rolled(e, clock, authority_lamports, call, count, reward) ==
    IF ~U64Le(e.paid_out, authority_lamports)
    THEN Fail("CpiFailed", e.instance)
    ELSE IF e.instance.limit_breaks_this_epoch > LB_MAX_PER_EPOCH
    THEN Fail("WorkLimitExceeded", e.instance)
    ELSE PackAndReturn(
             limit_break_next(limit_break_counts(e.instance, count), clock),
             reward, 0, e.paid_out, call.to_lamports, 0)

\* limit_break_branch without the test of the difficulty ceiling
limit_break_branch_unguarded(instance, clock, authority_lamports, call) ==
    LET count == LB_TOKEN_COUNT \div calculate_tokens(instance.breach_count)
    IN IF ~check_claim(call.claim_id, call.pool_id, instance.limit_break)
       THEN Fail("IncorrectClaimSolution", instance)
       ELSE IF add_i32(instance.breach_count, count) > I32_MAX
       THEN Fail("InvalidInstruction", instance)
       ELSE IF call.authority # authority_id(INSTANCE_ID, instance.nonce)
       THEN Fail("CpiFailed", instance)
       ELSE limit_break_rolled(
                roll_epoch(roll_window(instance, clock), clock,
                           authority_lamports),
                clock, authority_lamports, call, count,
                instance.limit_break[1])

\* the LimitBreak branch of process_claim_and_breaks (processor.rs 388-477)
limit_break_branch(instance, clock, authority_lamports, call) ==
    LET count == LB_TOKEN_COUNT \div calculate_tokens(instance.breach_count)
    IN IF instance.difficulty + LB_DIFF > MAX_DIFF
       THEN Fail("InvalidInstruction", instance)
       ELSE IF ~check_claim(call.claim_id, call.pool_id, instance.limit_break)
       THEN Fail("IncorrectClaimSolution", instance)
       ELSE IF add_i32(instance.breach_count, count) > I32_MAX
       THEN Fail("InvalidInstruction", instance)
       ELSE IF call.authority # authority_id(INSTANCE_ID, instance.nonce)
       THEN Fail("CpiFailed", instance)
       ELSE limit_break_rolled(
                roll_epoch(roll_window(instance, clock), clock,
                           authority_lamports),
                clock, authority_lamports, call, count,
                instance.limit_break[1])

\* process_claim_and_breaks; work is << >> (None) for a LimitBreak
process_claim_and_breaks(account, clock, authority_lamports, call, work) ==
    IF call.acct # "ok" THEN Fail("InvalidOwner", account)
    ELSE IF ~account.is_initialized THEN Fail("NotInitialized", account)
    ELSE
        LET chk == check_accounts(account, call.token_program,
                                  call.token_mint, call.to_token)
        IN IF chk.err # "Ok" THEN Fail(chk.err, account)
           ELSE IF ~chk.valid THEN Fail("InvalidTokenAddress", account)
           ELSE IF work # << >> THEN claim_branch(account, call, work)
           ELSE limit_break_branch(account, clock, authority_lamports, call)

\* process_withdraw paying out all that the authority holds
process_withdraw_pays_all(account, authority_lamports, call) ==
    IF \/ call.acct # "ok"
       \/ call.withdraw # account.withdraw_id
       \/ ~call.withdraw_signed
    THEN Fail("InvalidOwner", account)
    ELSE IF U64Le(authority_lamports, account.lamports)
    THEN Fail("InsufficientFundsForTransaction", account)
    ELSE IF call.authority # authority_id(INSTANCE_ID, account.nonce)
    THEN Fail("CpiFailed", account)
    ELSE PackAndReturn(account, 0, 0, authority_lamports, call.withdraw, 0)

\* process_withdraw without the signer test of the withdraw account
process_withdraw_unsigned(account, authority_lamports, call) ==
    IF \/ call.acct # "ok"
       \/ call.withdraw # account.withdraw_id
    THEN Fail("InvalidOwner", account)
    ELSE IF U64Le(authority_lamports, account.lamports)
    THEN Fail("InsufficientFundsForTransaction", account)
    ELSE IF call.authority # authority_id(INSTANCE_ID, account.nonce)
    THEN Fail("CpiFailed", account)
    ELSE PackAndReturn(account, 0, 0,
                       U64Sub(authority_lamports, account.lamports),
                       call.withdraw, 0)

process_withdraw(account, authority_lamports, call) ==
    IF \/ call.acct # "ok"
       \/ call.withdraw # account.withdraw_id
       \/ ~call.withdraw_signed
    THEN Fail("InvalidOwner", account)
    ELSE IF U64Le(authority_lamports, account.lamports)
    THEN Fail("InsufficientFundsForTransaction", account)
    ELSE IF call.authority # authority_id(INSTANCE_ID, account.nonce)
    THEN Fail("CpiFailed", account)
    ELSE PackAndReturn(account, 0, 0,
                       U64Sub(authority_lamports, account.lamports),
                       call.withdraw, 0)

\* the accounts of ChangeKeys that must sign (processor.rs 530-536)
KeyRoles ==
    {"admin_one", "admin_two", "withdraw",
     "new_admin_one", "new_admin_two", "new_withdraw"}

\* process_change_keys without the comparison of the withdraw identity
process_change_keys_two_compared(account, call) ==
    IF call.acct # "ok" THEN Fail("InvalidOwner", account)
    ELSE IF \E r \in KeyRoles : r \notin call.signed
    THEN Fail("InvalidOwner", account)
    ELSE IF ~account.is_initialized THEN Fail("NotInitialized", account)
    ELSE IF \/ call.admin_one # account.admin_one_id
            \/ call.admin_two # account.admin_two_id
    THEN Fail("InvalidOwner", account)
    ELSE PackAndReturn([account EXCEPT
                           !.admin_one_id = call.new_admin_one,
                           !.admin_two_id = call.new_admin_two,
                           !.withdraw_id = call.new_withdraw],
                       0, 0, U64(0), << >>, 0)

process_change_keys(account, call) ==
    IF call.acct # "ok" THEN Fail("InvalidOwner", account)
    ELSE IF \E r \in KeyRoles : r \notin call.signed
    THEN Fail("InvalidOwner", account)
    ELSE IF ~account.is_initialized THEN Fail("NotInitialized", account)
    ELSE IF \/ call.admin_one # account.admin_one_id
            \/ call.admin_two # account.admin_two_id
            \/ call.withdraw # account.withdraw_id
    THEN Fail("InvalidOwner", account)
    ELSE PackAndReturn([account EXCEPT
                           !.admin_one_id = call.new_admin_one,
                           !.admin_two_id = call.new_admin_two,
                           !.withdraw_id = call.new_withdraw],
                       0, 0, U64(0), << >>, 0)

(***************************************************************************)
(* The state machine.  The host serializes the invocations: an operation   *)
(* runs to completion on the idle program (the step of the same name),     *)
(* and its result is then handed back to the caller (Return).              *)
(***************************************************************************)
VARIABLES
    account,            \* the decoded account data of the instance
    clock,              \* the host clock: [slot, epoch]
    authority_lamports, \* the real balance of the program authority
    ret,                \* the operation that has just run, and its outcome
    stats,              \* history: units purchased, successful claims, ...
    probe               \* the input of a pure function and its result

vars == <<account, clock, authority_lamports, ret, stats, probe>>

StartClock == [slot |-> 500, epoch |-> 3]

Idle == [op |-> "none", call |-> [acct |-> "ok"],
         out |-> [err |-> "Ok", packed |-> FALSE]]

NoProbe == [fn |-> "none"]

Init ==
    /\ account = unpack_from_slice(Zeros(STATE_SPACE))
    /\ clock = StartClock
    /\ authority_lamports = U64(0)
    /\ ret = Idle
    /\ stats = [purchased |-> 0, breaches |-> 0, claimed |-> 0,
                key_changes |-> 0, withdraws |-> 0, terminal_payouts |-> 0]
    /\ probe = NoProbe

\* the outcomes of a handler under the builds of the program: where the
\* i32 addition to breach_count has overflowed, or the u64 subtraction
\* 10 - breaches of a Breach that issues puzzles has (more than 10 units),
\* a build with overflow checks panics there and a build without them goes
\* on with the wrapped result
Builds(before, out) ==
    IF /\ out.err = "Ok"
       /\ \/ out.instance.breach_count < before.breach_count
          \/ out.units > 10 /\ get_work_free_space(before.work) # 0
    THEN {out, Fail("Panic", before)}
    ELSE {out}

\* the effects of an operation whose handler returns result: the account
\* data are rewritten if the handler packed, transfers happen if it
\* succeeded
Effects(op, call, result) ==
    /\ \E out \in Builds(account, result) :
           /\ ret' = [op |-> op, call |-> call, out |-> out,
                      before |-> account, balance |-> authority_lamports]
           /\ account' = IF out.packed THEN Stored(out.instance) ELSE account
           /\ authority_lamports' =
                  IF out.err = "Ok"
                  THEN U64Sub(U64Add(authority_lamports, U64(out.paid_in)),
                              out.paid_out)
                  ELSE authority_lamports
           /\ stats' =
                  IF out.err = "Ok"
                  THEN [purchased |-> stats.purchased + out.units,
                        breaches |-> stats.breaches
                                     + (IF op = "Breach" THEN 1 ELSE 0),
                        claimed |-> stats.claimed
                                    + (IF op = "Claim" THEN 1 ELSE 0),
                        key_changes |-> stats.key_changes
                                    + (IF op = "ChangeKeys" THEN 1 ELSE 0),
                        withdraws |-> stats.withdraws
                                    + (IF op = "Withdraw" THEN 1 ELSE 0),
                        terminal_payouts |-> stats.terminal_payouts
                            + (IF /\ op = "LimitBreak"
                                  /\ out.instance.difficulty + LB_DIFF
                                         > MAX_DIFF
                               THEN 1 ELSE 0)]
                  ELSE stats
    /\ UNCHANGED <<clock, probe>>

\* an operation is invoked when no result is pending
Invoke(op, call, result) ==
    /\ ret.op = "none"
    /\ Effects(op, call, result)

Return ==
    /\ ret.op # "none"
    /\ ret' = Idle
    /\ UNCHANGED <<account, clock, authority_lamports, stats, probe>>

(***************************************************************************)
(* The calls explored.                                                     *)
(***************************************************************************)
Authority(acc) == authority_id(INSTANCE_ID, acc.nonce)

GoodToken(acc) == [owner |-> "spl_token", mint |-> acc.token_mint_id]

\* destination token accounts: the valid one, one owned by another program,
\* one of another mint
ToTokens(acc) ==
    {GoodToken(acc), [owner |-> "other", mint |-> acc.token_mint_id],
     [owner |-> "spl_token", mint |-> Pubkey(13)]}

InitializeCall(nonce, mint, one, two, withdraw) ==
    [acct |-> "ok", rent_exempt |-> TRUE, nonce |-> nonce,
     token_mint |-> Pubkey(mint), admin_one |-> Pubkey(one),
     admin_two |-> Pubkey(two), withdraw |-> Pubkey(withdraw)]

InitializeCalls ==
    {InitializeCall(255, 11, 21, 22, 23),
     InitializeCall(254, 12, 22, 24, 21),
     [InitializeCall(255, 11, 21, 22, 23) EXCEPT !.acct = "not_signed"],
     [InitializeCall(255, 11, 21, 22, 23) EXCEPT !.rent_exempt = FALSE]}

BreachCall(acc, lamports, to_token) ==
    [acct |-> "ok", lamports |-> lamports, authority |-> Authority(acc),
     token_program |-> "spl_token", token_mint |-> acc.token_mint_id,
     to_token |-> to_token]

\* the payments of a Breach: below and at the minimum, one unit, the cap of
\* ten units and just above it, at the stored price and at the price a
\* rollover would set
BreachAmounts(acc, clk) ==
    {MIN_LAMPORTS - 1, MIN_LAMPORTS, acc.breach_price,
     10 * acc.breach_price, 10 * acc.breach_price + 1,
     10 * roll_window(acc, clk).breach_price,
     10 * roll_window(acc, clk).breach_price + 1}

BreachFaults(c) ==
    {[c EXCEPT !.acct = "bad_owner"],
     [c EXCEPT !.acct = "not_signer"],
     [c EXCEPT !.authority = Pubkey(1)],
     [c EXCEPT !.token_program = "other"],
     [c EXCEPT !.token_mint = Pubkey(13)],
     [c EXCEPT !.lamports = MIN_LAMPORTS - 1, !.acct = "bad_owner"]}

BreachCalls(acc, clk) ==
    {BreachCall(acc, a, GoodToken(acc)) : a \in BreachAmounts(acc, clk)}
    \cup {BreachCall(acc, acc.breach_price, t) : t \in ToTokens(acc)}
    \cup BreachFaults(BreachCall(acc, MIN_LAMPORTS, GoodToken(acc)))

\* a Claim or LimitBreak call; work is << >> for a LimitBreak
ClaimCall(acc, claim_id, pool_id, work) ==
    [acct |-> "ok", authority |-> Authority(acc),
     token_program |-> "spl_token", token_mint |-> acc.token_mint_id,
     to_token |-> GoodToken(acc), claim_id |-> claim_id, pool_id |-> pool_id,
     to_lamports |-> Pubkey(2), work |-> work]

ClaimFaults(acc, c) ==
    {[c EXCEPT !.acct = "bad_owner"],
     [c EXCEPT !.authority = Pubkey(1)],
     [c EXCEPT !.token_program = "other"],
     [c EXCEPT !.token_mint = Pubkey(13)]}
    \cup {[c EXCEPT !.to_token = t] : t \in ToTokens(acc)}

\* an entry that no Breach issues: its digest field is not a digest
AbsentEntry == <<100>> \o Pubkey(77) \o <<2>> \o MagicTemplate

\* the claimant and pool pairs a Claim is tried with
ClaimPairs == {<<Pubkey(1), Pubkey(1)>>, <<Pubkey(1), Pubkey(2)>>}

\* the Claims tried: every entry of the list with every pair, the first
\* entry with another reward byte, an absent entry, and the faulty calls
ClaimTries(acc) ==
    LET first == IF acc.work = << >> THEN AbsentEntry ELSE acc.work[1]
    IN {ClaimCall(acc, cp[1], cp[2], acc.work[i]) :
            i \in 1..Len(acc.work), cp \in ClaimPairs}
       \cup {ClaimCall(acc, cp[1], cp[2], [first EXCEPT ![1] = 1]) :
                cp \in ClaimPairs}
       \cup {ClaimCall(acc, Pubkey(1), Pubkey(1), AbsentEntry)}
       \cup UNION {ClaimFaults(acc, ClaimCall(acc, cp[1], cp[2], first)) :
                      cp \in ClaimPairs}

LimitBreakTries(acc) ==
    {ClaimCall(acc, c, p, << >>) : c \in UserKeys, p \in UserKeys}
    \cup {[ClaimCall(acc, c, p, << >>) EXCEPT !.authority = Pubkey(1)] :
             c \in UserKeys, p \in UserKeys}
    \cup ClaimFaults(acc, ClaimCall(acc, Pubkey(1), Pubkey(1), << >>))

\* held is the balance of the account passed as the authority when it is
\* not the program's authority
WithdrawCall(acc) ==
    [acct |-> "ok", authority |-> Authority(acc), held |-> U64(0),
     withdraw |-> acc.withdraw_id, withdraw_signed |-> TRUE]

WithdrawCalls(acc) ==
    {WithdrawCall(acc),
     [WithdrawCall(acc) EXCEPT !.acct = "bad_owner"],
     [WithdrawCall(acc) EXCEPT !.authority = Pubkey(1)],
     [WithdrawCall(acc) EXCEPT !.authority = Pubkey(1),
                               !.held = U64Add(acc.lamports, U64(1))],
     [WithdrawCall(acc) EXCEPT !.withdraw = Pubkey(1)],
     [WithdrawCall(acc) EXCEPT !.withdraw_signed = FALSE]}

ChangeKeysCall(acc) ==
    [acct |-> "ok", signed |-> KeyRoles, admin_one |-> acc.admin_one_id,
     admin_two |-> acc.admin_two_id, withdraw |-> acc.withdraw_id,
     new_admin_one |-> Pubkey(31), new_admin_two |-> Pubkey(32),
     new_withdraw |-> Pubkey(33)]

ChangeKeysCalls(acc) ==
    {ChangeKeysCall(acc),
     [ChangeKeysCall(acc) EXCEPT !.acct = "bad_owner"],
     [ChangeKeysCall(acc) EXCEPT !.acct = "not_writable"],
     [ChangeKeysCall(acc) EXCEPT !.admin_one = Pubkey(1)],
     [ChangeKeysCall(acc) EXCEPT !.admin_two = Pubkey(1)],
     [ChangeKeysCall(acc) EXCEPT !.withdraw = Pubkey(1)]}
    \cup {[ChangeKeysCall(acc) EXCEPT !.signed = KeyRoles \ {r}] :
             r \in KeyRoles}

(***************************************************************************)
(* The operations.                                                         *)
(***************************************************************************)
Initialize ==
    \E call \in InitializeCalls :
        Invoke("Initialize", call, process_initialize(account, clock, call))

Breach ==
    /\ stats.breaches < MaxBreaches
    /\ \E call \in BreachCalls(account, clock) :
           Invoke("Breach", call, process_breach(account, clock, call))

Claim ==
    /\ stats.claimed < MaxClaims
    /\ \E call \in ClaimTries(account) :
           Invoke("Claim", call,
                  process_claim_and_breaks(account, clock, authority_lamports,
                                           call, call.work))

\* the claimant of a successful Claim sends the same Claim once more as soon
\* as the first has returned
ClaimAgain ==
    /\ ret.op = "Claim"
    /\ ret.out.err = "Ok"
    /\ Effects("Claim", ret.call,
               process_claim_and_breaks(account, clock, authority_lamports,
                                        ret.call, ret.call.work))

LimitBreak ==
    /\ account.limit_count < MaxLimitBreaks
    /\ \E call \in LimitBreakTries(account) :
           Invoke("LimitBreak", call,
                  process_claim_and_breaks(account, clock, authority_lamports,
                                           call, << >>))

Withdraw ==
    /\ stats.withdraws < MaxWithdraws
    /\ \E call \in WithdrawCalls(account) :
           Invoke("Withdraw", call,
                  process_withdraw(account,
                      IF call.authority = Authority(account)
                      THEN authority_lamports ELSE call.held,
                      call))

ChangeKeys ==
    /\ stats.key_changes < MaxKeyChanges
    /\ \E call \in ChangeKeysCalls(account) :
           Invoke("ChangeKeys", call, process_change_keys(account, call))

\* the host clock advances, to just below or to a pricing-window boundary
TickSlot ==
    /\ ret.op = "none"
    /\ \E d \in {BREACH_WINDOW - 1, BREACH_WINDOW} :
           /\ clock.slot < StartClock.slot + d
           /\ clock' = [clock EXCEPT !.slot = StartClock.slot + d]
    /\ UNCHANGED <<account, authority_lamports, ret, stats, probe>>

\* the epoch ends; an epoch is longer than a pricing window
TickEpoch ==
    /\ ret.op = "none"
    /\ clock.slot = StartClock.slot + BREACH_WINDOW
    /\ clock.epoch < StartClock.epoch + MaxEpoch
    /\ clock' = [clock EXCEPT !.epoch = clock.epoch + 1]
    /\ UNCHANGED <<account, authority_lamports, ret, stats, probe>>

Next ==
    \/ Initialize
    \/ Breach
    \/ Claim
    \/ ClaimAgain
    \/ LimitBreak
    \/ Withdraw
    \/ ChangeKeys
    \/ Return
    \/ TickSlot
    \/ TickEpoch

Spec == Init /\ [][Next]_vars

(***************************************************************************)
(* The filling run: full purchases until the work list holds FillLevel     *)
(* entries, then every operation around the capacity of the list.  The     *)
(* clock stands still, so the price stays the starting price.              *)
(***************************************************************************)
FillAmounts(acc) ==
    IF Len(acc.work) < FillLevel THEN {10 * acc.breach_price}
    ELSE {acc.breach_price, 10 * acc.breach_price}

\* the entries at both ends of the list
FillEntries(acc) == {acc.work[1], acc.work[Len(acc.work)]}

\* LimitBreak, Withdraw and ChangeKeys succeed at most MaxFillOthers times
\* together
FillOthers == account.limit_count + stats.withdraws + stats.key_changes

FillInitialize ==
    /\ ~account.is_initialized
    /\ \E call \in {InitializeCall(255, 11, 21, 22, 23)} :
           Invoke("Initialize", call, process_initialize(account, clock, call))

FillBreach ==
    /\ account.is_initialized
    /\ stats.breaches < MaxFillBreaches
    /\ \E a \in FillAmounts(account) :
           Invoke("Breach", BreachCall(account, a, GoodToken(account)),
                  process_breach(account, clock,
                      BreachCall(account, a, GoodToken(account))))

FillClaim ==
    /\ Len(account.work) >= FillLevel
    /\ stats.claimed < MaxFillClaims
    /\ \E e \in FillEntries(account), cp \in ClaimPairs :
           Invoke("Claim", ClaimCall(account, cp[1], cp[2], e),
                  process_claim_and_breaks(account, clock, authority_lamports,
                      ClaimCall(account, cp[1], cp[2], e), e))

FillLimitBreak ==
    /\ Len(account.work) >= FillLevel
    /\ FillOthers < MaxFillOthers
    /\ \E cp \in ClaimPairs :
           Invoke("LimitBreak", ClaimCall(account, cp[1], cp[2], << >>),
                  process_claim_and_breaks(account, clock, authority_lamports,
                      ClaimCall(account, cp[1], cp[2], << >>), << >>))

FillWithdraw ==
    /\ Len(account.work) >= FillLevel
    /\ FillOthers < MaxFillOthers
    /\ Invoke("Withdraw", WithdrawCall(account),
              process_withdraw(account, authority_lamports,
                               WithdrawCall(account)))

FillChangeKeys ==
    /\ Len(account.work) >= FillLevel
    /\ FillOthers < MaxFillOthers
    /\ Invoke("ChangeKeys", ChangeKeysCall(account),
              process_change_keys(account, ChangeKeysCall(account)))

NextFill ==
    \/ FillInitialize
    \/ FillBreach
    \/ FillClaim
    \/ FillLimitBreak
    \/ FillWithdraw
    \/ FillChangeKeys
    \/ Return

SpecFill == Init /\ [][NextFill]_vars

(***************************************************************************)
(* The run of limit breaks: one Breach of one unit funds the treasury (and  *)
(* further Breaches are tried once the difficulty has reached its ceiling), *)
(* then limit breaks are solved epoch after epoch, up to the cap of an     *)
(* epoch; the epoch ends after the sixth limit break of an epoch (and, in  *)
(* the first epoch, also after the fifth), which is what raises the        *)
(* difficulty at the next limit break.  An epoch is longer than a pricing  *)
(* window, so the slot advances with it.  The withdraw identity may take   *)
(* the excess of the authority's balance at any point after the Breach.    *)
(***************************************************************************)
RunBreach ==
    /\ account.is_initialized
    /\ \/ stats.breaches = 0
       \/ /\ account.difficulty + LB_DIFF > MAX_DIFF
          /\ stats.breaches < MaxRunBreaches
    /\ \E call \in {BreachCall(account, account.breach_price,
                               GoodToken(account))} :
           Invoke("Breach", call, process_breach(account, clock, call))

\* every claimant key is tried, so that one of them solves the puzzle; the
\* payout account is a stranger's or the stored withdraw identity
RunLimitBreak ==
    /\ stats.breaches > 0
    /\ \E call \in {[ClaimCall(account, Pubkey(k), Pubkey(1), << >>)
                          EXCEPT !.to_lamports = to] :
                      k \in 0..(HashMod - 1),
                      to \in {Pubkey(2), account.withdraw_id}} :
           Invoke("LimitBreak", call,
                  process_claim_and_breaks(account, clock, authority_lamports,
                                           call, << >>))

\* the withdraw identity takes what the authority holds beyond the treasury
RunWithdraw ==
    /\ stats.breaches > 0
    /\ stats.withdraws < MaxWithdraws
    /\ Invoke("Withdraw", WithdrawCall(account),
              process_withdraw(account, authority_lamports,
                               WithdrawCall(account)))

RunTick ==
    /\ ret.op = "none"
    /\ clock.epoch = account.current_epoch
    /\ clock.epoch < StartClock.epoch + MaxRunEpochs
    /\ \/ account.limit_breaks_this_epoch = LB_DIFF_INCREASE + 1
       \/ /\ account.limit_breaks_this_epoch = LB_DIFF_INCREASE
          /\ clock.epoch = StartClock.epoch
    /\ clock' = [slot |-> clock.slot + BREACH_WINDOW,
                 epoch |-> clock.epoch + 1]
    /\ UNCHANGED <<account, authority_lamports, ret, stats, probe>>

NextRun ==
    \/ FillInitialize
    \/ RunBreach
    \/ RunLimitBreak
    \/ RunWithdraw
    \/ RunTick
    \/ Return

SpecRun == Init /\ [][NextRun]_vars

(***************************************************************************)
(* check_claim as a function of its arguments: the initial states are the  *)
(* arguments tried, the one step applies the function.                     *)
(***************************************************************************)
\* magic fields: the template, and two that depart from it at the second
\* and at the fifth byte
ProbeMagics ==
    {MagicTemplate, [MagicTemplate EXCEPT ![2] = 0],
     [MagicTemplate EXCEPT ![5] = 1]}

ProbeEntries ==
    {<<r>> \o Pubkey(k) \o <<n>> \o m :
        r \in {100, 200}, k \in 0..(HashMod - 1),
        n \in {0, 1, 2, 5, 7, MAGIC}, m \in ProbeMagics}

InitClaim ==
    /\ account = unpack_from_slice(Zeros(STATE_SPACE))
    /\ clock = StartClock
    /\ authority_lamports = U64(0)
    /\ ret = Idle
    /\ stats = [purchased |-> 0, breaches |-> 0, claimed |-> 0,
                key_changes |-> 0, withdraws |-> 0, terminal_payouts |-> 0]
    /\ \E e \in ProbeEntries, c \in UserKeys, p \in UserKeys :
           probe = [fn |-> "check_claim", claim_id |-> c, pool_id |-> p,
                    work |-> e, done |-> FALSE, ok |-> FALSE]

CheckClaim ==
    /\ probe.fn = "check_claim"
    /\ ~probe.done
    /\ probe' = [probe EXCEPT
                    !.done = TRUE,
                    !.ok = check_claim(probe.claim_id, probe.pool_id,
                                       probe.work)]
    /\ UNCHANGED <<account, clock, authority_lamports, ret, stats>>

SpecClaim == InitClaim /\ [][CheckClaim]_vars

(***************************************************************************)
(* The overflow check and the counters of process_breach (processor.rs     *)
(* 294-302) as a function of breach_count and of the units bought, and the *)
(* limit break (388-479) as a function of breach_count: the initial states *)
(* are the values tried, at the reward tiers of calculate_tokens and next  *)
(* to i32::MAX, on a record that is otherwise as Initialize leaves it; the *)
(* one step applies the code.                                              *)
(***************************************************************************)
InitCount ==
    /\ account = unpack_from_slice(Zeros(STATE_SPACE))
    /\ clock = StartClock
    /\ authority_lamports = U64(0)
    /\ ret = Idle
    /\ stats = [purchased |-> 0, breaches |-> 0, claimed |-> 0,
                key_changes |-> 0, withdraws |-> 0, terminal_payouts |-> 0]
    /\ \E c \in {0, 999, 1000, 9999, 10000, 99999, 100000}
                    \cup {I32_MAX - k : k \in 0..CountMargin},
          b \in 0..10 :
           probe = [fn |-> "breach_counts",
                    instance |->
                        [process_initialize(account, clock,
                             InitializeCall(255, 11, 21, 22, 23)).instance
                            EXCEPT !.breach_count = c],
                    breaches |-> b, done |-> FALSE, out |-> Idle.out]

CountBreach ==
    /\ probe.fn = "breach_counts"
    /\ ~probe.done
    /\ \E out \in Builds(probe.instance,
                         breach_counts(probe.instance, probe.breaches, 0, 0)) :
           probe' = [probe EXCEPT !.done = TRUE, !.out = out]
    /\ UNCHANGED <<account, clock, authority_lamports, ret, stats>>

CountLimitBreak ==
    /\ probe.fn = "breach_counts"
    /\ ~probe.done
    /\ \E k \in 0..(HashMod - 1) :
       \E call \in {ClaimCall(probe.instance, Pubkey(k), Pubkey(1), << >>)} :
       \E out \in Builds(probe.instance,
                         process_claim_and_breaks(probe.instance, clock,
                             authority_lamports, call, << >>)) :
           probe' = [probe EXCEPT !.fn = "limit_break", !.done = TRUE,
                                  !.out = out]
    /\ UNCHANGED <<account, clock, authority_lamports, ret, stats>>

NextCount == CountBreach \/ CountLimitBreak

SpecCount == InitCount /\ [][NextCount]_vars

(***************************************************************************)
(* calculate_price over the whole range of its result (processor.rs        *)
(* 695-738).  PriceProducts[count] is the double-precision product         *)
(* price * (powi(1.0f32 + rate, count - tier start) as f64) of             *)
(* price_grower for calculate_price(count, START_PRICE), at the start of   *)
(* the first tier, across the tier boundaries 1000, 10000 and 100000, and  *)
(* where the product passes 2^64: <<l2, l1, l0, frac>> stands for the      *)
(* value (l2 * Limb + l1) * Limb + l0, plus a fraction if frac = 1.  The   *)
(* values were computed with IEEE-754 arithmetic, the power by repeated    *)
(* squaring in single precision.                                           *)
(***************************************************************************)
PriceProducts ==
       0 :> <<0, 8, 15782272, 0>>
    @@ 1 :> <<0, 8, 16109269, 1>>
    @@ 2 :> <<0, 8, 16436981, 1>>
    @@ 3 :> <<0, 8, 16765408, 1>>
    @@ 4 :> <<0, 9, 317335, 1>>
    @@ 5 :> <<0, 9, 647193, 1>>
    @@ 6 :> <<0, 9, 977767, 1>>
    @@ 7 :> <<0, 9, 1309073, 1>>
    @@ 8 :> <<0, 9, 1641095, 1>>
    @@ 9 :> <<0, 9, 1973832, 1>>
    @@ 10 :> <<0, 9, 2307302, 1>>
    @@ 11 :> <<0, 9, 2641505, 1>>
    @@ 12 :> <<0, 9, 2976441, 1>>
    @@ 13 :> <<0, 9, 3312093, 1>>
    @@ 14 :> <<0, 9, 3648478, 1>>
    @@ 15 :> <<0, 9, 3985596, 1>>
    @@ 16 :> <<0, 9, 4323465, 1>>
    @@ 17 :> <<0, 9, 4662049, 1>>
    @@ 18 :> <<0, 9, 5001384, 1>>
    @@ 19 :> <<0, 9, 5341452, 1>>
    @@ 20 :> <<0, 9, 5682272, 1>>
    @@ 21 :> <<0, 9, 6023824, 1>>
    @@ 22 :> <<0, 9, 6366128, 1>>
    @@ 23 :> <<0, 9, 6709182, 1>>
    @@ 24 :> <<0, 9, 7052970, 1>>
    @@ 990 :> <<0, 77, 3435015, 1>>
    @@ 991 :> <<0, 77, 6258844, 1>>
    @@ 992 :> <<0, 77, 9088825, 1>>
    @@ 993 :> <<0, 77, 11924814, 1>>
    @@ 994 :> <<0, 77, 14766954, 1>>
    @@ 995 :> <<0, 78, 838030, 1>>
    @@ 996 :> <<0, 78, 3692759, 1>>
    @@ 997 :> <<0, 78, 6553782, 1>>
    @@ 998 :> <<0, 78, 9420670, 1>>
    @@ 999 :> <<0, 78, 12294138, 1>>
    @@ 1000 :> <<0, 78, 15173616, 0>>
    @@ 1001 :> <<0, 78, 15462248, 1>>
    @@ 1002 :> <<0, 78, 15750880, 1>>
    @@ 1003 :> <<0, 78, 16039670, 1>>
    @@ 1004 :> <<0, 78, 16328461, 1>>
    @@ 1005 :> <<0, 78, 16617409, 1>>
    @@ 1006 :> <<0, 79, 128983, 1>>
    @@ 1007 :> <<0, 79, 418088, 1>>
    @@ 1008 :> <<0, 79, 707036, 1>>
    @@ 1009 :> <<0, 79, 996142, 1>>
    @@ 1010 :> <<0, 79, 1285248, 1>>
    @@ 9990 :> <<0, 560, 680091, 1>>
    @@ 9991 :> <<0, 560, 2729081, 1>>
    @@ 9992 :> <<0, 560, 4777439, 1>>
    @@ 9993 :> <<0, 560, 6827692, 1>>
    @@ 9994 :> <<0, 560, 8877313, 1>>
    @@ 9995 :> <<0, 560, 10925671, 1>>
    @@ 9996 :> <<0, 560, 12977186, 1>>
    @@ 9997 :> <<0, 560, 15029332, 1>>
    @@ 9998 :> <<0, 561, 303000, 1>>
    @@ 9999 :> <<0, 561, 2355777, 1>>
    @@ 10000 :> <<0, 561, 4406031, 0>>
    @@ 10001 :> <<0, 561, 4611453, 1>>
    @@ 10002 :> <<0, 561, 4816875, 1>>
    @@ 10003 :> <<0, 561, 5022297, 1>>
    @@ 10004 :> <<0, 561, 5227719, 1>>
    @@ 10005 :> <<0, 561, 5433141, 1>>
    @@ 10006 :> <<0, 561, 5638563, 1>>
    @@ 10007 :> <<0, 561, 5843985, 1>>
    @@ 10008 :> <<0, 561, 6049407, 1>>
    @@ 10009 :> <<0, 561, 6254830, 1>>
    @@ 10010 :> <<0, 561, 6460252, 1>>
    @@ 99990 :> <<0, 3995, 11578337, 1>>
    @@ 99991 :> <<0, 3995, 13060071, 1>>
    @@ 99992 :> <<0, 3995, 14510373, 1>>
    @@ 99993 :> <<0, 3995, 15974146, 1>>
    @@ 99994 :> <<0, 3996, 651723, 1>>
    @@ 99995 :> <<0, 3996, 2115496, 1>>
    @@ 99996 :> <<0, 3996, 3583759, 1>>
    @@ 99997 :> <<0, 3996, 5038551, 1>>
    @@ 99998 :> <<0, 3996, 6493344, 1>>
    @@ 99999 :> <<0, 3996, 7961607, 1>>
    @@ 100000 :> <<0, 3996, 9416401, 0>>
    @@ 100001 :> <<0, 3996, 9560277, 1>>
    @@ 100002 :> <<0, 3996, 9704153, 1>>
    @@ 100003 :> <<0, 3996, 9848029, 1>>
    @@ 100004 :> <<0, 3996, 9991905, 1>>
    @@ 100005 :> <<0, 3996, 10135782, 1>>
    @@ 100006 :> <<0, 3996, 10279658, 1>>
    @@ 100007 :> <<0, 3996, 10423534, 1>>
    @@ 100008 :> <<0, 3996, 10567410, 1>>
    @@ 100009 :> <<0, 3996, 10711286, 1>>
    @@ 100010 :> <<0, 3996, 10855163, 1>>
    @@ 9156269 :> <<65534, 10204131, 9791488, 0>>
    @@ 9156270 :> <<65534, 12634040, 13932544, 0>>
    @@ 9156271 :> <<65534, 14808170, 2627584, 0>>
    @@ 9156272 :> <<65535, 588753, 6103040, 0>>
    @@ 9156273 :> <<65535, 2890772, 10909696, 0>>
    @@ 9156274 :> <<65535, 5192791, 15716352, 0>>
    @@ 9156275 :> <<65535, 7622701, 3080192, 0>>
    @@ 9156276 :> <<65535, 9924720, 7884800, 0>>
    @@ 9156277 :> <<65535, 12354629, 12025856, 0>>
    @@ 9156278 :> <<65535, 14528759, 720896, 0>>
    @@ 9156279 :> <<65536, 309342, 4198400, 0>>
    @@ 9156280 :> <<65536, 2739251, 8339456, 0>>
    @@ 9156281 :> <<65536, 4913380, 13807616, 0>>
    @@ 9156282 :> <<65536, 7343290, 1171456, 0>>
    @@ 9156283 :> <<65536, 9645309, 5980160, 0>>
    @@ 9156284 :> <<65536, 11947328, 10784768, 0>>
    @@ 9156285 :> <<65536, 14505127, 14262272, 0>>
    @@ 9156286 :> <<65537, 29931, 2289664, 0>>
    @@ 9156287 :> <<65537, 2331950, 7098368, 0>>
    @@ 9156288 :> <<65537, 4761859, 11239424, 0>>
    @@ 9156289 :> <<65537, 7063878, 16044032, 0>>

\* ceil (processor.rs 732-738) on a product <<l2, l1, l0, frac>>: the cast
\* float as u64 truncates and saturates at u64::MAX, the comparison
\* float == int as f64 holds for an integral product below 2^64 and for 2^64
\* itself, and int + 1 on u64::MAX wraps to 0 or panics, depending on the
\* build.  The set of the possible outcomes [err, value], value in three
\* limbs.
ceil(float) ==
    IF float[1] >= 65536
    THEN IF float = <<65536, 0, 0, 0>>
         THEN {[err |-> "Ok", value |-> <<65535, Limb - 1, Limb - 1>>]}
         ELSE {[err |-> "Ok", value |-> <<0, 0, 0>>],
               [err |-> "Panic", value |-> <<0, 0, 0>>]}
    ELSE IF float[4] = 0
    THEN {[err |-> "Ok", value |-> <<float[1], float[2], float[3]>>]}
    ELSE IF float[3] + 1 < Limb
    THEN {[err |-> "Ok", value |-> <<float[1], float[2], float[3] + 1>>]}
    ELSE IF float[2] + 1 < Limb
    THEN {[err |-> "Ok", value |-> <<float[1], float[2] + 1, 0>>]}
    ELSE {[err |-> "Ok", value |-> <<float[1] + 1, 0, 0>>]}

\* the counts tried: breach_count before a pricing-window rollover
InitPrice ==
    /\ account = unpack_from_slice(Zeros(STATE_SPACE))
    /\ clock = StartClock
    /\ authority_lamports = U64(0)
    /\ ret = Idle
    /\ stats = [purchased |-> 0, breaches |-> 0, claimed |-> 0,
                key_changes |-> 0, withdraws |-> 0, terminal_payouts |-> 0]
    /\ \E c \in DOMAIN PriceProducts :
           probe = [fn |-> "calculate_price", count |-> c, done |-> FALSE,
                    before |-> [err |-> "Ok", value |-> <<0, 0, 0>>],
                    out |-> [err |-> "Ok", value |-> <<0, 0, 0>>]]

\* two pricing-window rollovers (processor.rs 211-215, 418-422), the first
\* at breach_count = count, the second after one more unit
PriceStep ==
    /\ probe.fn = "calculate_price"
    /\ ~probe.done
    /\ probe.count + 1 \in DOMAIN PriceProducts
    /\ \E before \in ceil(PriceProducts[probe.count]) :
       \E out \in ceil(PriceProducts[probe.count + 1]) :
           /\ before.err = "Ok"
           /\ probe' = [probe EXCEPT !.done = TRUE, !.before = before,
                                     !.out = out]
    /\ UNCHANGED <<account, clock, authority_lamports, ret, stats>>

SpecPrice == InitPrice /\ [][PriceStep]_vars

(***************************************************************************)
(* process_breach as a function of the work list, the backlog, the         *)
(* doubling credits, the difficulty, the units sold and the payment: the   *)
(* initial states are records that are as Initialize leaves them but for   *)
(* these fields, with lists around the capacity, backlogs that meet free   *)
(* space and counts in several reward tiers, and the calls tried; the one  *)
(* step applies the handler.                                               *)
(***************************************************************************)
\* the record tried: length entries (each 57 bytes with its own digest
\* field), work_cached units of backlog, doubles doubling credits, claimed
\* units sold and claimed before
CacheInstance(length, work_cached, doubles, difficulty, claimed) ==
    [process_initialize(unpack_from_slice(Zeros(STATE_SPACE)), StartClock,
         InitializeCall(255, 11, 21, 22, 23)).instance
        EXCEPT !.work =
                   [i \in 1..length |->
                       <<100>> \o Pubkey(i) \o <<START_DIFF>>
                           \o MagicTemplate],
               !.work_cached = work_cached,
               !.token_doubles = doubles,
               !.difficulty = difficulty,
               !.breach_count = claimed + length + work_cached]

InitCache ==
    /\ account = unpack_from_slice(Zeros(STATE_SPACE))
    /\ clock = StartClock
    /\ authority_lamports = U64(0)
    /\ ret = Idle
    /\ stats = [purchased |-> 0, breaches |-> 0, claimed |-> 0,
                key_changes |-> 0, withdraws |-> 0, terminal_payouts |-> 0]
    /\ \E length \in {0, 50, 90, 95, 99, MAX_COUNT - 1},
          work_cached \in {0, 1, 5, MaxCached},
          doubles \in {0, 3, MaxCached},
          difficulty \in {START_DIFF, MAX_DIFF - LB_DIFF + 1},
          claimed \in {0, 999, 9999, 99999},
          units \in 0..10,
          to_token \in {"spl_token", "other"} :
           probe = [fn |-> "process_breach",
                    instance |-> CacheInstance(length, work_cached, doubles,
                                               difficulty, claimed),
                    call |-> BreachCall(
                                 CacheInstance(0, 0, 0, START_DIFF, 0),
                                 IF units = 0 THEN MIN_LAMPORTS
                                 ELSE units * START_PRICE,
                                 [owner |-> to_token, mint |-> Pubkey(11)]),
                    done |-> FALSE, out |-> Idle.out]

CacheBreach ==
    /\ probe.fn = "process_breach"
    /\ ~probe.done
    /\ \E out \in Builds(probe.instance,
                         process_breach(probe.instance, clock, probe.call)) :
           probe' = [probe EXCEPT !.done = TRUE, !.out = out]
    /\ UNCHANGED <<account, clock, authority_lamports, ret, stats>>

SpecCache == InitCache /\ [][CacheBreach]_vars

(***************************************************************************)
(* process_breach as a function of the payment, the carried remainder and  *)
(* the price: the records are as Initialize leaves them but for the units  *)
(* sold, the price of the window (the price at 0, 2, 7 or 68 units) and a  *)
(* remainder that the payments before can leave (at the last two prices    *)
(* also one equal to the price); the payments aim at 1 to 11 times the     *)
(* price, and one lamport more, together with the remainder.               *)
(***************************************************************************)
InitUnits ==
    /\ account = unpack_from_slice(Zeros(STATE_SPACE))
    /\ clock = StartClock
    /\ authority_lamports = U64(0)
    /\ ret = Idle
    /\ stats = [purchased |-> 0, breaches |-> 0, claimed |-> 0,
                key_changes |-> 0, withdraws |-> 0, terminal_payouts |-> 0]
    /\ \E claimed \in {0, 2, 7, 68}, k \in 1..11, d \in {0, 1} :
       \E breach_remain \in
               {0, 2, 10000, 1000000, 75000000}
               \cup (IF claimed \in {7, 68}
                     THEN {calculate_price(claimed, START_PRICE)} ELSE {}) :
           probe = [fn |-> "process_breach",
                    instance |->
                        [CacheInstance(0, 0, 0, START_DIFF, claimed)
                            EXCEPT !.breach_remain = breach_remain,
                                   !.breach_price =
                                       calculate_price(claimed, START_PRICE)],
                    call |-> BreachCall(
                                 CacheInstance(0, 0, 0, START_DIFF, 0),
                                 k * calculate_price(claimed, START_PRICE)
                                     - breach_remain + d,
                                 [owner |-> "spl_token", mint |-> Pubkey(11)]),
                    done |-> FALSE, out |-> Idle.out]

SpecUnits == InitUnits /\ [][CacheBreach]_vars

(***************************************************************************)
(* The backlog drains.  The record holds a list at or near its capacity    *)
(* and a backlog, at the first difficulty or at the ceiling; Breaches of   *)
(* the minimum payment, which buy no unit, are sent while there is a       *)
(* backlog and the list has room (on a full list such a Breach moves      *)
(* nothing), and the last entry of the list is claimed by a claimant who   *)
(* has solved it, while there is a backlog.  Every call returns, and a     *)
(* Breach, or a Claim, that can be sent again and again is sent again and  *)
(* again: strong fairness of DrainBreach and of DrainClaim, written with   *)
(* the conditions under which they are enabled.                            *)
(***************************************************************************)
InitDrain ==
    /\ \E fill \in {<<50, MaxCached>>, <<99, 5>>, <<MAX_COUNT - 1, 5>>},
          difficulty \in {START_DIFF, MAX_DIFF - LB_DIFF + 1} :
           account = Stored(CacheInstance(fill[1], fill[2], 0,
                                          difficulty, 0))
    /\ clock = StartClock
    /\ authority_lamports = U64(0)
    /\ ret = Idle
    /\ stats = [purchased |-> 0, breaches |-> 0, claimed |-> 0,
                key_changes |-> 0, withdraws |-> 0, terminal_payouts |-> 0]
    /\ probe = NoProbe

BreachReady ==
    /\ ret.op = "none"
    /\ account.work_cached > 0
    /\ Len(account.work) < MAX_COUNT - 1

DrainBreach ==
    /\ BreachReady
    /\ Invoke("Breach", BreachCall(account, MIN_LAMPORTS, GoodToken(account)),
              process_breach(account, clock,
                  BreachCall(account, MIN_LAMPORTS, GoodToken(account))))

ClaimReady ==
    /\ ret.op = "none"
    /\ account.work_cached > 0
    /\ stats.claimed < MaxCached
    /\ \E k \in 0..(HashMod - 1) :
           check_claim(Pubkey(k), Pubkey(1), account.work[Len(account.work)])

DrainClaim ==
    /\ ClaimReady
    /\ \E call \in {ClaimCall(account, Pubkey(k), Pubkey(1),
                                account.work[Len(account.work)]) :
                          k \in 0..(HashMod - 1)} :
           /\ check_claim(call.claim_id, call.pool_id, call.work)
           /\ Invoke("Claim", call,
                     process_claim_and_breaks(account, clock,
                         authority_lamports, call, call.work))

NextDrain ==
    \/ DrainBreach
    \/ DrainClaim
    \/ Return

SpecDrain ==
    /\ InitDrain
    /\ [][NextDrain]_vars
    /\ WF_vars(Return)
    /\ []<>BreachReady => []<><<ret.op = "none" /\ ret'.op = "Breach">>_vars
    /\ []<>ClaimReady => []<><<ret.op = "none" /\ ret'.op = "Claim">>_vars

(***************************************************************************)
(* Instructions.  An action is a record with its name and its argument;    *)
(* pack writes the tag byte and the argument, unpack reads them back, the  *)
(* builders of instruction.rs make the account list and the data of one    *)
(* instruction, and process hands the decoded action to its handler.       *)
(* An account meta is <<role, is_writable, is_signer>>.                    *)
(***************************************************************************)
\* HihiInstruction::pack
pack(self) ==
    CASE self.action = "Initialize" -> <<0, self.nonce>>
      [] self.action = "Breach" -> <<1>> \o ToLeBytes(self.lamports, 8)
      [] self.action = "LimitBreak" -> <<2>>
      [] self.action = "Claim" -> <<3>> \o SubSeq(self.work, 1, WORK_BYTES)
      [] self.action = "Withdraw" -> <<4>>
      [] self.action = "ChangeKeys" -> <<5>>

\* HihiInstruction::unpack with unpack_u64 and unpack_work; split_at(1) of
\* an empty rest panics
unpack(input) ==
    IF input = << >>
    THEN [err |-> "InvalidInstruction"]
    ELSE CASE input[1] = 0 ->
                  IF Len(input) < 2
                  THEN [err |-> "Panic"]
                  ELSE [err |-> "Ok", action |-> "Initialize",
                        nonce |-> input[2]]
           [] input[1] = 1 ->
                  IF Len(input) - 1 >= 8
                  THEN [err |-> "Ok", action |-> "Breach",
                        lamports |-> FromLeBytes(SubSeq(input, 2, 9))]
                  ELSE [err |-> "InvalidInstruction"]
           [] input[1] = 2 -> [err |-> "Ok", action |-> "LimitBreak"]
           [] input[1] = 3 ->
                  IF Len(input) - 1 >= WORK_BYTES
                  THEN [err |-> "Ok", action |-> "Claim",
                        work |-> SubSeq(input, 2, WORK_BYTES + 1)]
                  ELSE [err |-> "InvalidInstruction"]
           [] input[1] = 4 -> [err |-> "Ok", action |-> "Withdraw"]
           [] input[1] = 5 -> [err |-> "Ok", action |-> "ChangeKeys"]
           [] OTHER -> [err |-> "DeserializationFailure"]

\* the builders initialize, breach, limit_break, claim, withdraw and
\* change_keys, by name; args holds nonce, lamports and work
Builder(name, args) ==
    CASE name = "initialize" ->
             [accounts |-> << <<"instance", TRUE, TRUE>>,
                              <<"initializer", FALSE, TRUE>>,
                              <<"token_mint", FALSE, FALSE>>,
                              <<"admin_one", FALSE, TRUE>>,
                              <<"admin_two", FALSE, TRUE>>,
                              <<"withdraw", FALSE, TRUE>>,
                              <<"rent", FALSE, FALSE>> >>,
              data |-> pack([action |-> "Initialize", nonce |-> args.nonce])]
      [] name = "breach" ->
             [accounts |-> << <<"instance", TRUE, FALSE>>,
                              <<"token_program", FALSE, FALSE>>,
                              <<"token_mint", TRUE, FALSE>>,
                              <<"authority", TRUE, FALSE>>,
                              <<"from", TRUE, TRUE>>,
                              <<"to_token", TRUE, FALSE>>,
                              <<"system_program", FALSE, FALSE>> >>,
              data |-> pack([action |-> "Breach",
                             lamports |-> args.lamports])]
      [] name = "limit_break" ->
             [accounts |-> << <<"instance", TRUE, FALSE>>,
                              <<"token_program", FALSE, FALSE>>,
                              <<"token_mint", TRUE, FALSE>>,
                              <<"authority", TRUE, FALSE>>,
                              <<"claim_key", FALSE, TRUE>>,
                              <<"pool_key", FALSE, TRUE>>,
                              <<"to_token", TRUE, FALSE>>,
                              <<"to_lamports", TRUE, FALSE>>,
                              <<"system_program", FALSE, FALSE>> >>,
              data |-> pack([action |-> "LimitBreak"])]
      [] name = "claim" ->
             [accounts |-> << <<"instance", TRUE, FALSE>>,
                              <<"token_program", FALSE, FALSE>>,
                              <<"token_mint", TRUE, FALSE>>,
                              <<"authority", FALSE, FALSE>>,
                              <<"claim_pubkey", FALSE, TRUE>>,
                              <<"pool_pubkey", FALSE, TRUE>>,
                              <<"to_pubkey", TRUE, FALSE>> >>,
              data |-> pack([action |-> "Claim", work |-> args.work])]
      [] name = "withdraw" ->
             [accounts |-> << <<"instance", FALSE, FALSE>>,
                              <<"authority", TRUE, FALSE>>,
                              <<"withdraw", TRUE, TRUE>>,
                              <<"system_program", FALSE, FALSE>> >>,
              data |-> pack([action |-> "ChangeKeys"])]
      [] name = "change_keys" ->
             [accounts |-> << <<"instance", TRUE, FALSE>>,
                              <<"admin_one_key", FALSE, TRUE>>,
                              <<"admin_two_key", FALSE, TRUE>>,
                              <<"withdraw_key", FALSE, TRUE>>,
                              <<"new_admin_one_key", FALSE, TRUE>>,
                              <<"new_admin_two_key", FALSE, TRUE>>,
                              <<"new_withdraw_key", FALSE, TRUE>> >>,
              data |-> pack([action |-> "ChangeKeys"])]

\* Processor::process: the handler that receives the decoded action, or
\* the error of unpack
process(input) ==
    IF unpack(input).err # "Ok"
    THEN [err |-> unpack(input).err, handler |-> "none"]
    ELSE [err |-> "Ok",
          handler |->
              CASE unpack(input).action = "Initialize" -> "process_initialize"
                [] unpack(input).action = "Breach" -> "process_breach"
                [] unpack(input).action = "LimitBreak" -> "process_limit_break"
                [] unpack(input).action = "Claim" -> "process_claim"
                [] unpack(input).action = "Withdraw" -> "process_withdraw"
                [] unpack(input).action = "ChangeKeys" ->
                       "process_change_keys"]

(***************************************************************************)
(* The builders under the processor: one builder is called with one        *)
(* argument and the data of its instruction is given to process.           *)
(***************************************************************************)
InitInstr ==
    /\ account = unpack_from_slice(Zeros(STATE_SPACE))
    /\ clock = StartClock
    /\ authority_lamports = U64(0)
    /\ ret = Idle
    /\ stats = [purchased |-> 0, breaches |-> 0, claimed |-> 0,
                key_changes |-> 0, withdraws |-> 0, terminal_payouts |-> 0]
    /\ \E call \in
             {[builder |-> "initialize", nonce |-> n] : n \in 0..31}
             \cup {[builder |-> "initialize", nonce |-> 255]}
             \cup {[builder |-> "breach", lamports |-> l] :
                       l \in {0, 1, 255, 256, 9999, MIN_LAMPORTS, 65535,
                              65536, 16777216, START_PRICE, 1500000000,
                              I32_MAX}}
             \cup {[builder |-> "claim",
                    work |-> <<t>> \o Pubkey(k) \o <<d>> \o MagicTemplate] :
                       t \in {1, 100, 200}, k \in 0..1, d \in {2, 23}}
             \cup {[builder |-> b] :
                       b \in {"limit_break", "withdraw", "change_keys"}} :
           probe = [fn |-> "process", call |-> call, done |-> FALSE,
                    instruction |-> Builder(call.builder, call),
                    out |-> [err |-> "Ok", handler |-> "none"]]

Dispatch ==
    /\ probe.fn = "process"
    /\ ~probe.done
    /\ probe' = [probe EXCEPT !.done = TRUE,
                              !.out = process(probe.instruction.data)]
    /\ UNCHANGED <<account, clock, authority_lamports, ret, stats>>

SpecInstr == InitInstr /\ [][Dispatch]_vars

(***************************************************************************)
(* Properties.  While an operation's result is pending (ret.op is not      *)
(* "none"), ret.before is the record stored before the call, account the   *)
(* record stored after it, ret.balance the authority's balance before the  *)
(* call, and clock the clock the call has read.                            *)
(***************************************************************************)

C2_WorkWithinCapacity ==
    account.is_initialized => Len(account.work) <= 101

\* the list is full and purchased units wait in the cache
C2_Witness ==
    /\ Len(account.work) = 100
    /\ account.work_cached > 0

\* C3: the entries of the work list plus the cached units are the units
\* purchased by the successful Breaches minus the successful Claims, and
\* LimitBreak, Withdraw and ChangeKeys do not change their number
C3_UnitsAccounted ==
    /\ Len(account.work) + account.work_cached
           = stats.purchased - stats.claimed
    /\ ret.op \in {"LimitBreak", "Withdraw", "ChangeKeys"} =>
           Len(account.work) + account.work_cached
               = Len(ret.before.work) + ret.before.work_cached

\* a Breach after Claims that issues cached units along with its own: the
\* list grows by more than the units bought
C3_Witness ==
    /\ ret.op = "Breach"
    /\ ret.out.err = "Ok"
    /\ stats.claimed > 0
    /\ ret.before.work_cached > 0
    /\ Len(account.work) - Len(ret.before.work) > ret.out.units

\* C4: no write-back panics, and the record decoded from the bytes written is
\* the record the handler has packed, in every field
C4_PackRoundTrip ==
    ret.op # "none" =>
        /\ ret.out.err # "Panic"
        /\ ret.out.packed =>
               /\ account = ret.out.instance
               /\ Len(account.limit_break) = 57
               /\ \A i \in 1..Len(account.work) :
                      account.work[i] = ret.out.instance.work[i]

\* a write-back of a full work list whose entries differ
C4_Witness ==
    /\ ret.op # "none"
    /\ ret.out.packed
    /\ Len(account.work) = 100
    /\ account.work[1] # account.work[100]
    /\ account.work_cached > 0

\* C5: check_claim accepts exactly if the digest of the entry's challenge
\* digest, the claimant and the pool begins with the first magic_length
\* bytes of the entry's magic field; the reward byte has no influence
C5_CheckClaim ==
    (probe.fn = "check_claim" /\ probe.done) =>
        LET entry == probe.work
            digest == hash(SubSeq(entry, 2, 33) \o probe.claim_id
                           \o probe.pool_id)
        IN /\ probe.ok = (\A i \in 1..entry[34] : digest[i] = entry[34 + i])
           /\ \A r \in {0, 1, 255} :
                  check_claim(probe.claim_id, probe.pool_id,
                              [entry EXCEPT ![1] = r]) = probe.ok

\* an accepted solution of a puzzle of length five or more
C5_Witness ==
    /\ probe.fn = "check_claim"
    /\ probe.done
    /\ probe.ok
    /\ probe.work[34] >= 5

\* C6: a Claim that reaches the work list fails with InvalidClaimHash if the
\* entry is absent, whether or not it is solved; if the entry is present and
\* solved the Claim succeeds, mints the entry's reward byte and removes the
\* first equal entry by moving the last entry into its place
C6_ClaimRemovesFirstMatch ==
    (/\ ret.op = "Claim"
     /\ ret.call.acct = "ok"
     /\ ret.before.is_initialized
     /\ ret.call.token_program = "spl_token"
     /\ ret.call.token_mint = ret.before.token_mint_id
     /\ ret.call.to_token
            = [owner |-> "spl_token", mint |-> ret.before.token_mint_id]) =>
        LET e == ret.call.work
            old == ret.before.work
            n == Len(old)
            present == \E i \in 1..n : old[i] = e
        IN /\ ~present => ret.out.err = "InvalidClaimHash"
           /\ (/\ present
               /\ check_claim(ret.call.claim_id, ret.call.pool_id, e)
               /\ ret.call.authority
                      = authority_id(INSTANCE_ID, ret.before.nonce)) =>
                  ret.out.err = "Ok"
           /\ ret.out.err = "Ok" =>
                  /\ ret.out.minted = e[1]
                  /\ Len(account.work) = n - 1
                  /\ \E k \in 1..n :
                         /\ old[k] = e
                         /\ \A j \in 1..(k - 1) : old[j] # e
                         /\ \A i \in 1..(n - 1) :
                                account.work[i]
                                    = IF i = k THEN old[n] ELSE old[i]

\* a successful Claim of an entry that occurs twice in the list
C6_Witness ==
    /\ ret.op = "Claim"
    /\ ret.out.err = "Ok"
    /\ \E i \in 1..Len(ret.before.work), j \in 1..Len(ret.before.work) :
           /\ i < j
           /\ j < Len(ret.before.work)
           /\ ret.before.work[i] = ret.call.work
           /\ ret.before.work[j] = ret.call.work

\* C7: a Breach paying less than 10000 lamports fails with
\* InsufficientFundsForTransaction whatever the accounts and the record are,
\* and changes nothing; a Breach paying 10000 lamports on an initialized
\* record with valid accounts, within the cap, succeeds and does not lower
\* breach_count
C7_MinimumPayment ==
    ret.op = "Breach" =>
        /\ ret.call.lamports < 10000 =>
               /\ ret.out.err = "InsufficientFundsForTransaction"
               /\ account = ret.before
        /\ (/\ ret.call.lamports = 10000
            /\ ret.call.acct = "ok"
            /\ ret.before.is_initialized
            /\ ret.call.authority
                   = authority_id(INSTANCE_ID, ret.before.nonce)
            /\ ret.call.token_program = "spl_token"
            /\ ret.call.token_mint = ret.before.token_mint_id
            /\ 10000 <= 10 * ret.before.breach_price) =>
               /\ ret.out.err = "Ok"
               /\ account.breach_count >= ret.before.breach_count

\* a Breach below the minimum whose instance account is not the program's,
\* on a record that is not initialized
C7_Witness ==
    /\ ret.op = "Breach"
    /\ ret.call.lamports < 10000
    /\ ret.call.acct = "bad_owner"
    /\ ~ret.before.is_initialized

\* C8: a Breach that passes the account checks while difficulty + 3 <= 23 and
\* pays more than ten times the price in force (the price a window rollover
\* in this call sets, the stored price otherwise) fails with
\* InsufficientFundsForTransaction: no units, no mint, nothing stored
C8_WhaleCap ==
    (/\ ret.op = "Breach"
     /\ ret.call.lamports >= 10000
     /\ ret.call.acct = "ok"
     /\ ret.before.is_initialized
     /\ ret.call.authority = authority_id(INSTANCE_ID, ret.before.nonce)
     /\ ret.call.token_program = "spl_token"
     /\ ret.call.token_mint = ret.before.token_mint_id
     /\ ret.before.difficulty + 3 <= 23) =>
        LET in_force ==
                IF clock.slot - ret.before.current_slot >= 100
                THEN calculate_price(ret.before.breach_count, 150000000)
                ELSE ret.before.breach_price
        IN ret.call.lamports > 10 * in_force =>
               /\ ret.out.err = "InsufficientFundsForTransaction"
               /\ ret.out.units = 0
               /\ ret.out.minted = 0
               /\ account = ret.before

\* a Breach one lamport above the cap at a price that the rollover of this
\* very call has raised
C8_Witness ==
    /\ ret.op = "Breach"
    /\ ret.call.acct = "ok"
    /\ ret.before.is_initialized
    /\ ret.out.err = "InsufficientFundsForTransaction"
    /\ clock.slot - ret.before.current_slot >= 100
    /\ calculate_price(ret.before.breach_count, 150000000)
           > ret.before.breach_price
    /\ ret.call.lamports
           = 10 * calculate_price(ret.before.breach_count, 150000000) + 1

\* C9: a successful Initialize happens on an uninitialized record and stores
\* difficulty 2, the starting price, zero counters and treasury, an empty
\* work list, the host clock, the supplied nonce, mint and admin keys, and a
\* limit-break puzzle of 57 bytes whose magic length is 5
C9_InitializeResult ==
    (ret.op = "Initialize" /\ ret.out.err = "Ok") =>
        /\ ~ret.before.is_initialized
        /\ account.is_initialized
        /\ account.difficulty = 2
        /\ account.breach_price = calculate_price(0, 150000000)
        /\ account.breach_price = 150000000
        /\ account.breach_count = 0
        /\ account.breach_count_this_window = 0
        /\ account.work_cached = 0
        /\ account.lamports = <<0, 0>>
        /\ account.breach_remain = 0
        /\ account.token_doubles = 0
        /\ account.limit_count = 0
        /\ account.limit_breaks_this_epoch = 0
        /\ account.work = << >>
        /\ account.current_slot = clock.slot
        /\ account.current_epoch = clock.epoch
        /\ account.nonce = ret.call.nonce
        /\ account.token_mint_id = ret.call.token_mint
        /\ account.admin_one_id = ret.call.admin_one
        /\ account.admin_two_id = ret.call.admin_two
        /\ account.withdraw_id = ret.call.withdraw
        /\ Len(account.limit_break) = 57
        /\ account.limit_break[34] = 5
        /\ account.limit_break # [i \in 1..57 |-> 0]

\* a successful Initialize after the clock has advanced
C9_Witness ==
    /\ ret.op = "Initialize"
    /\ ret.out.err = "Ok"
    /\ ret.call.nonce = 254
    /\ clock.slot > 500
    /\ clock.epoch > 3

\* C10: once the record is initialized every step keeps it initialized and
\* keeps its nonce and token mint; an Initialize on it fails, with
\* AlreadyInitialized if the owner and signer checks pass, and leaves the
\* record as it is
C10_InitializedOnce ==
    [][account.is_initialized =>
          /\ account'.is_initialized
          /\ account'.nonce = account.nonce
          /\ account'.token_mint_id = account.token_mint_id
          /\ ret'.op = "Initialize" =>
                 /\ ret'.out.err # "Ok"
                 /\ ret'.call.acct = "ok" =>
                        ret'.out.err = "AlreadyInitialized"
                 /\ account' = account]_vars

\* an Initialize with another nonce and mint on an initialized record
C10_Witness ==
    /\ ret.op = "Initialize"
    /\ ret.before.is_initialized
    /\ ret.call.acct = "ok"
    /\ ret.call.rent_exempt
    /\ ret.call.nonce # ret.before.nonce
    /\ ret.call.token_mint # ret.before.token_mint_id

\* C11: on an initialized record the three admin identities change only in
\* a ChangeKeys call whose three current identities have signed and equal
\* the stored ones, and that call stores the three new identities and
\* nothing else; a ChangeKeys call that lacks one of the three signatures or
\* names one identity wrongly fails with InvalidOwner; Breach, Claim,
\* LimitBreak and Withdraw leave the three identities alone
C11_KeysChangeByCoSigners ==
    (ret.op # "none" /\ ret.before.is_initialized) =>
        LET old == ret.before
            call == ret.call
            keys(r) == <<r.admin_one_id, r.admin_two_id, r.withdraw_id>>
        IN /\ keys(account) # keys(old) =>
                  /\ ret.op = "ChangeKeys"
                  /\ {"admin_one", "admin_two", "withdraw"} \subseteq call.signed
                  /\ <<call.admin_one, call.admin_two, call.withdraw>>
                         = keys(old)
                  /\ account = [old EXCEPT
                                   !.admin_one_id = call.new_admin_one,
                                   !.admin_two_id = call.new_admin_two,
                                   !.withdraw_id = call.new_withdraw]
           /\ (/\ ret.op = "ChangeKeys"
               /\ \/ ~({"admin_one", "admin_two", "withdraw"}
                           \subseteq call.signed)
                  \/ <<call.admin_one, call.admin_two, call.withdraw>>
                         # keys(old)) =>
                  /\ ret.out.err = "InvalidOwner"
                  /\ account = old
           /\ ret.op \in {"Breach", "Claim", "LimitBreak", "Withdraw"} =>
                  keys(account) = keys(old)

\* a ChangeKeys that replaces the three identities of a record whose treasury
\* a Breach has credited
C11_Witness ==
    /\ ret.op = "ChangeKeys"
    /\ ret.out.err = "Ok"
    /\ account.admin_one_id # ret.before.admin_one_id
    /\ account.admin_two_id # ret.before.admin_two_id
    /\ account.withdraw_id # ret.before.withdraw_id
    /\ account.lamports # U64(0)

\* C12: a Withdraw succeeds only if the withdraw account has signed and is
\* the stored withdraw identity, and fails with InvalidOwner otherwise; a
\* successful Withdraw pays the authority's balance less the treasury to
\* that identity, leaves the balance equal to the treasury and the record
\* as it was; with a balance not above the treasury it fails with
\* InsufficientFundsForTransaction; a failed Withdraw moves no funds
C12_WithdrawPaysExcess ==
    ret.op = "Withdraw" =>
        LET old == ret.before
            call == ret.call
        IN /\ (~call.withdraw_signed \/ call.withdraw # old.withdraw_id) =>
                  ret.out.err = "InvalidOwner"
           /\ ret.out.err = "Ok" =>
                  /\ call.withdraw_signed
                  /\ call.withdraw = old.withdraw_id
                  /\ ret.out.paid_to = old.withdraw_id
                  /\ ret.out.paid_out = U64Sub(ret.balance, old.lamports)
                  /\ authority_lamports = old.lamports
                  /\ account = old
           /\ (/\ call.acct = "ok"
               /\ call.withdraw_signed
               /\ call.withdraw = old.withdraw_id
               /\ call.authority = authority_id(INSTANCE_ID, old.nonce)
               /\ U64Le(ret.balance, old.lamports)) =>
                  ret.out.err = "InsufficientFundsForTransaction"
           /\ ret.out.err # "Ok" => authority_lamports = ret.balance

\* a Withdraw of the quarter of a payment that the treasury does not hold
C12_Witness ==
    /\ ret.op = "Withdraw"
    /\ ret.out.err = "Ok"
    /\ ret.before.lamports # U64(0)
    /\ ret.out.paid_out # U64(0)
    /\ ret.out.paid_out # ret.balance

\* C13: on a record that is not initialized every Breach of at least 10000
\* lamports, Claim, LimitBreak, Withdraw and ChangeKeys whose owner and
\* signer checks pass fails with NotInitialized, moves no funds, mints
\* nothing and leaves the record as it is
C13_UninitializedRejects ==
    (/\ ret.op \in {"Breach", "Claim", "LimitBreak", "Withdraw", "ChangeKeys"}
     /\ ~ret.before.is_initialized
     /\ ret.call.acct = "ok"
     /\ ret.op = "Breach" => ret.call.lamports >= 10000
     /\ ret.op = "Withdraw" =>
            /\ ret.call.withdraw_signed
            /\ ret.call.withdraw = ret.before.withdraw_id
     /\ ret.op = "ChangeKeys" => ret.call.signed = KeyRoles) =>
        /\ ret.out.err = "NotInitialized"
        /\ ret.out.minted = 0
        /\ authority_lamports = ret.balance
        /\ account = ret.before

\* C14: on an initialized record the difficulty is at least 2 and at most
\* 21, and no operation lowers it or raises it by more than one
C14_DifficultyBounded ==
    /\ account.is_initialized =>
           /\ 2 <= account.difficulty
           /\ account.difficulty <= 21
    /\ (ret.op # "none" /\ ret.before.is_initialized) =>
           /\ ret.before.difficulty <= account.difficulty
           /\ account.difficulty <= ret.before.difficulty + 1

\* the limit break that raises the difficulty from 20 to 21
C14_Witness ==
    /\ ret.op = "LimitBreak"
    /\ ret.out.err = "Ok"
    /\ ret.before.difficulty = 20
    /\ account.difficulty = 21

\* C15: a Breach or LimitBreak whose addition would take breach_count above
\* 2147483647 is refused with InvalidInstruction and nothing is written; a
\* write-back never lowers breach_count and never leaves it negative
C15_CountNeverWraps ==
    (probe.fn \in {"breach_counts", "limit_break"} /\ probe.done) =>
        /\ probe.instance.breach_count
               > 2147483647
                 - (IF probe.fn = "breach_counts" THEN probe.breaches
                    ELSE 200 \div calculate_tokens(
                                      probe.instance.breach_count)) =>
               /\ probe.out.err = "InvalidInstruction"
               /\ ~probe.out.packed
        /\ probe.out.packed =>
               /\ probe.out.instance.breach_count
                      >= probe.instance.breach_count
               /\ probe.out.instance.breach_count >= 0

\* C16: a LimitBreak on a record with difficulty + 3 > 23 fails: with
\* InvalidInstruction if its accounts are valid, whether or not the proof
\* solves the puzzle, without mint, payout or change of the record; the
\* payout of the whole treasury happens at most once in a run
C16_NoLimitBreakAtCeiling ==
    /\ (ret.op = "LimitBreak" /\ ret.before.difficulty + 3 > 23) =>
           /\ ret.out.err # "Ok"
           /\ (/\ ret.call.acct = "ok"
               /\ ret.before.is_initialized
               /\ ret.call.token_program = "spl_token"
               /\ ret.call.token_mint = ret.before.token_mint_id
               /\ ret.call.to_token
                      = [owner |-> "spl_token",
                         mint |-> ret.before.token_mint_id]) =>
                  ret.out.err = "InvalidInstruction"
           /\ ret.out.minted = 0
           /\ ret.out.paid_out = U64(0)
           /\ authority_lamports = ret.balance
           /\ account = ret.before
    /\ stats.terminal_payouts <= 1

\* a solved limit break refused at the ceiling, after the payout of the whole
\* treasury
C16_Witness ==
    /\ ret.op = "LimitBreak"
    /\ ret.before.difficulty = 21
    /\ check_claim(ret.call.claim_id, ret.call.pool_id,
                   ret.before.limit_break)
    /\ stats.terminal_payouts = 1
    /\ ret.before.lamports = U64(0)

\* C17 as claimed: a successful LimitBreak mints 200 divided by the reward
\* tier of the breach_count the call started with
C17_MintsCount ==
    (probe.fn = "limit_break" /\ probe.out.err = "Ok") =>
        probe.out.minted
            = 200 \div calculate_tokens(probe.instance.breach_count)

\* C17: a successful LimitBreak mints the reward byte of the limit-break
\* puzzle it solves, which is 200 at every reward tier; 200 divided by the
\* reward tier of the breach_count the call started with is what it adds
\* to breach_count, when the sum is within the 32-bit range
C17_MintsRewardByte ==
    (probe.fn = "limit_break" /\ probe.out.err = "Ok") =>
        /\ probe.out.minted = probe.instance.limit_break[1]
        /\ probe.out.minted = 200
        /\ probe.instance.breach_count
               <= 2147483647
                  - 200 \div calculate_tokens(probe.instance.breach_count) =>
               probe.out.instance.breach_count
                   = probe.instance.breach_count
                     + 200 \div calculate_tokens(
                                    probe.instance.breach_count)

\* a successful LimitBreak at the reward tier 25, which adds 8 to
\* breach_count
C17_Witness ==
    /\ probe.fn = "limit_break"
    /\ probe.out.err = "Ok"
    /\ probe.instance.breach_count = 10000
    /\ probe.out.instance.breach_count = 10008
    /\ probe.out.minted = 200

\* C18: a successful LimitBreak that sees the epoch roll over after more
\* than five limit breaks pays out the whole treasury and zeroes it if the
\* raised difficulty + 3 exceeds 23, and five percent of the treasury,
\* rounded down, otherwise; without a rollover, or after at most five limit
\* breaks, it pays nothing and leaves the treasury as it is
C18_TreasuryPayout ==
    (ret.op = "LimitBreak" /\ ret.out.err = "Ok") =>
        LET old == ret.before
            raised == /\ clock.epoch - old.current_epoch > 0
                      /\ old.limit_breaks_this_epoch > 5
            terminal == old.difficulty + 1 + 3 > 23
        IN /\ (raised /\ terminal) =>
                  /\ ret.out.paid_out = old.lamports
                  /\ account.lamports = U64(0)
           /\ (raised /\ ~terminal) =>
                  /\ ret.out.paid_out = U64FivePercent(old.lamports)
                  /\ account.lamports
                         = U64Sub(old.lamports, ret.out.paid_out)
           /\ ~raised =>
                  /\ ret.out.paid_out = U64(0)
                  /\ account.lamports = old.lamports

\* C19 as claimed: the lamports a LimitBreak pays out of the treasury go to
\* one of the identities stored in the record
C19_PayoutToStoredIdentity ==
    (ret.op = "LimitBreak" /\ ret.out.err = "Ok"
        /\ ret.out.paid_out # U64(0)) =>
        ret.out.paid_to \in {ret.before.admin_one_id,
                             ret.before.admin_two_id,
                             ret.before.withdraw_id}

\* C19: the lamports a LimitBreak pays out of the treasury go to the payout
\* account passed by the caller, whose claim and pool keys solve the
\* limit-break puzzle of the record
C19_PayoutToPassedAccount ==
    (ret.op = "LimitBreak" /\ ret.out.err = "Ok"
        /\ ret.out.paid_out # U64(0)) =>
        /\ ret.out.paid_to = ret.call.to_lamports
        /\ check_claim(ret.call.claim_id, ret.call.pool_id,
                       ret.before.limit_break)

\* a payout to an account that is none of the stored identities
C19_Witness ==
    /\ ret.op = "LimitBreak"
    /\ ret.out.err = "Ok"
    /\ ret.out.paid_out # U64(0)
    /\ ret.out.paid_to = Pubkey(2)
    /\ Pubkey(2) \notin {ret.before.admin_one_id, ret.before.admin_two_id,
                          ret.before.withdraw_id}

\* C20: limit_breaks_this_epoch never exceeds 23, and a LimitBreak refused
\* with WorkLimitExceeded changes nothing
C20_PerEpochCap ==
    /\ account.limit_breaks_this_epoch <= 23
    /\ (ret.op = "LimitBreak" /\ ret.out.err = "WorkLimitExceeded") =>
           account = ret.before

\* C21: a successful LimitBreak raises the difficulty by one exactly when
\* the host epoch is past current_epoch and limit_breaks_this_epoch was
\* above 5 at the start of the call, and leaves it otherwise; past
\* current_epoch it stores the host epoch and ends with
\* limit_breaks_this_epoch = 1, otherwise it adds one to
\* limit_breaks_this_epoch; it adds one to limit_count in both cases
C21_EpochRollover ==
    (ret.op = "LimitBreak" /\ ret.out.err = "Ok") =>
        /\ account.difficulty
               = ret.before.difficulty
                 + (IF /\ clock.epoch > ret.before.current_epoch
                       /\ ret.before.limit_breaks_this_epoch > 5
                    THEN 1 ELSE 0)
        /\ clock.epoch > ret.before.current_epoch =>
               /\ account.current_epoch = clock.epoch
               /\ account.limit_breaks_this_epoch = 1
        /\ ~(clock.epoch > ret.before.current_epoch) =>
               /\ account.current_epoch = ret.before.current_epoch
               /\ account.limit_breaks_this_epoch
                      = ret.before.limit_breaks_this_epoch + 1
        /\ account.limit_count = ret.before.limit_count + 1

\* a rollover after exactly five limit breaks, which leaves the difficulty
C21_Witness ==
    /\ ret.op = "LimitBreak"
    /\ ret.out.err = "Ok"
    /\ clock.epoch > ret.before.current_epoch
    /\ ret.before.limit_breaks_this_epoch = 5
    /\ account.difficulty = ret.before.difficulty
    /\ account.limit_breaks_this_epoch = 1

\* C22: breach_price never decreases: a pricing-window rollover after
\* breach_count has grown sets a price that is at least the price set by
\* the rollover before it
C22_PriceNeverDecreases ==
    (probe.fn = "calculate_price" /\ probe.done /\ probe.out.err = "Ok") =>
        \/ probe.before.value[1] < probe.out.value[1]
        \/ /\ probe.before.value[1] = probe.out.value[1]
           /\ \/ probe.before.value[2] < probe.out.value[2]
              \/ /\ probe.before.value[2] = probe.out.value[2]
                 /\ probe.before.value[3] <= probe.out.value[3]

C24_EntriesAppended ==
    (probe.fn = "process_breach" /\ probe.done /\ probe.out.err = "Ok") =>
        LET total == probe.out.units + probe.instance.work_cached
            free == 101 - Len(probe.instance.work) - 1
            least == IF total <= 10 /\ total <= free THEN total
                     ELSE IF free <= 10 THEN free ELSE 10
        IN /\ Len(probe.out.instance.work)
                  = Len(probe.instance.work) + least
           /\ probe.out.instance.work_cached = total - least
           /\ SubSeq(probe.out.instance.work, 1, Len(probe.instance.work))
                  = probe.instance.work

\* a Breach of units that finds a backlog and ample free space and appends
\* ten entries
C24_Witness ==
    /\ probe.fn = "process_breach"
    /\ probe.done
    /\ probe.out.err = "Ok"
    /\ probe.instance.work_cached = 5
    /\ probe.out.units = 7
    /\ Len(probe.instance.work) = 50
    /\ Len(probe.out.instance.work) = 60
    /\ probe.out.instance.work_cached = 2

C26_WindowRollover ==
    (ret.op # "none" /\ ret.before.is_initialized) =>
        IF /\ ret.out.err = "Ok"
           /\ \/ ret.op = "LimitBreak"
              \/ ret.op = "Breach" /\ ret.before.difficulty + 3 <= 23
        THEN LET units == IF ret.op = "Breach" THEN ret.out.units
                          ELSE 200 \div calculate_tokens(
                                            ret.before.breach_count)
             IN IF clock.slot - ret.before.current_slot >= 100
                THEN /\ account.breach_count_this_window = units
                     /\ account.current_slot = clock.slot
                     /\ account.breach_price
                            = calculate_price(ret.before.breach_count,
                                              150000000)
                ELSE /\ account.breach_count_this_window
                            = ret.before.breach_count_this_window + units
                     /\ account.current_slot = ret.before.current_slot
                     /\ account.breach_price = ret.before.breach_price
        ELSE /\ account.breach_count_this_window
                    = ret.before.breach_count_this_window
             /\ account.current_slot = ret.before.current_slot
             /\ account.breach_price = ret.before.breach_price

\* a Breach exactly 100 slots after the window began, which buys units at
\* the new price
C26_Witness ==
    /\ ret.op = "Breach"
    /\ ret.out.err = "Ok"
    /\ clock.slot - ret.before.current_slot = 100
    /\ ret.before.breach_count_this_window > 0
    /\ ret.out.units > 0
    /\ account.breach_count_this_window = ret.out.units
    /\ account.breach_price > ret.before.breach_price

\* C27: a successful Breach on a record with difficulty + 3 <= 23 adds
\* (payment / 4) * 3 in integer arithmetic to treasury_lamports, with or
\* without a whole unit bought; no other operation increases
\* treasury_lamports, and only a LimitBreak that pays out decreases it
C27_TreasuryCredit ==
    (ret.op # "none" /\ ret.before.is_initialized) =>
        /\ (/\ ret.op = "Breach"
            /\ ret.out.err = "Ok"
            /\ ret.before.difficulty + 3 <= 23) =>
               account.lamports
                   = U64Add(ret.before.lamports,
                            U64((ret.call.lamports \div 4) * 3))
        /\ ~U64Le(account.lamports, ret.before.lamports) =>
               ret.op = "Breach"
        /\ ~U64Le(ret.before.lamports, account.lamports) =>
               /\ ret.op = "LimitBreak"
               /\ ret.out.paid_out # U64(0)

\* a Breach of the minimum payment, which buys no unit
C27_Witness ==
    /\ ret.op = "Breach"
    /\ ret.out.err = "Ok"
    /\ ret.call.lamports = 10000
    /\ ret.out.units = 0
    /\ account.lamports = U64Add(ret.before.lamports, U64(7500))

\* C28: a successful purchasing Breach (difficulty + 3 <= 23) either mints
\* reward_tier * units tokens and adds no doubling credit, if the
\* destination token account is a token account of the deployment's mint,
\* or mints nothing and adds units to token_doubles before the puzzles are
\* issued (so that the credits left and the doubled puzzles issued add up
\* to the credits before plus the units); reward_tier is 100 / 50 / 25 / 10
\* for max(0, breach_count - breach_count_this_window - work_cached) of the
\* record at the start of the call below 1000 / 10000 / 100000 / otherwise
C28_MintOrDouble ==
    (/\ probe.fn = "process_breach"
     /\ probe.done
     /\ probe.out.err = "Ok"
     /\ probe.instance.difficulty + 3 <= 23) =>
        LET count == probe.instance.breach_count
                     - probe.instance.breach_count_this_window
                     - probe.instance.work_cached
            reward_tier == IF count < 1000 THEN 100
                           ELSE IF count < 10000 THEN 50
                           ELSE IF count < 100000 THEN 25 ELSE 10
            valid == /\ probe.call.to_token.owner = "spl_token"
                     /\ probe.call.to_token.mint
                            = probe.instance.token_mint_id
            doubled == Cardinality(
                {i \in (Len(probe.instance.work) + 1)
                           ..Len(probe.out.instance.work) :
                     probe.out.instance.work[i][1] = 2 * reward_tier})
        IN IF valid
           THEN /\ probe.out.minted = reward_tier * probe.out.units
                /\ probe.out.instance.token_doubles + doubled
                       = probe.instance.token_doubles
           ELSE /\ probe.out.minted = 0
                /\ probe.out.instance.token_doubles + doubled
                       = probe.instance.token_doubles + probe.out.units

\* a Breach of three units in the tier of 25 with a token account of the
\* mint as destination, and one with another account as destination
C28_Witness ==
    /\ probe.fn = "process_breach"
    /\ probe.done
    /\ probe.out.err = "Ok"
    /\ probe.instance.difficulty + 3 <= 23
    /\ probe.instance.breach_count - probe.instance.work_cached = 99999
    /\ probe.out.units = 3
    /\ \/ /\ probe.call.to_token.owner = "spl_token"
          /\ probe.out.minted = 75
       \/ /\ probe.call.to_token.owner # "spl_token"
          /\ probe.instance.token_doubles = 0
          /\ probe.instance.work_cached = 0
          /\ probe.out.minted = 0
          /\ probe.out.instance.work[1][1] = 50

\* C29: the puzzles a Breach has create_hash_puzzles make, count of them
\* with d doubling credits pending (those of the record and the units just
\* bought with another destination), are count entries of 57 bytes, the
\* first min(count, d) with a reward of twice the base and the rest with
\* the base, and token_doubles becomes d - min(count, d), never negative
C29_DoubledPuzzles ==
    (probe.fn = "process_breach" /\ probe.done /\ probe.out.err = "Ok") =>
        LET base == breach_base_tokens(probe.instance)
            credited == IF /\ probe.instance.difficulty + 3 <= 23
                           /\ ~(/\ probe.call.to_token.owner = "spl_token"
                                /\ probe.call.to_token.mint
                                       = probe.instance.token_mint_id)
                        THEN probe.out.units ELSE 0
            d == probe.instance.token_doubles + credited
            length == Len(probe.instance.work)
            count == Len(probe.out.instance.work) - length
            least == IF count <= d THEN count ELSE d
        IN /\ count >= 0
           /\ \A i \in 1..count :
                  /\ Len(probe.out.instance.work[length + i]) = 57
                  /\ probe.out.instance.work[length + i][1]
                         = IF i <= least THEN 2 * base ELSE base
           /\ probe.out.instance.token_doubles = d - least
           /\ probe.out.instance.token_doubles >= 0

\* a Breach that issues ten puzzles with three credits pending: three
\* doubled entries, then seven plain ones, and no credit left
C29_Witness ==
    /\ probe.fn = "process_breach"
    /\ probe.done
    /\ probe.out.err = "Ok"
    /\ probe.instance.token_doubles = 3
    /\ probe.call.to_token.owner = "spl_token"
    /\ Len(probe.instance.work) = 50
    /\ Len(probe.out.instance.work) = 60
    /\ probe.out.instance.work[53][1] = 200
    /\ probe.out.instance.work[54][1] = 100
    /\ probe.out.instance.token_doubles = 0

\* C30: the work list never holds more than 100 entries, so that
\* get_work_free_space does not underflow; a successful Breach appends no
\* more entries than the free space 101 - work.length - 1 it found, no
\* Breach returns WorkLimitExceeded, and no operation ends in the panic of
\* pack, the packed work staying below 101 * 57 bytes
C30_OneSlotReserved ==
    /\ Len(account.work) <= 100
    /\ 101 - Len(account.work) - 1 >= 0
    /\ Len(account.work) * 57 < 101 * 57
    /\ ret.op # "none" => ret.out.err # "Panic"
    /\ ret.op = "Breach" =>
           /\ ret.out.err # "WorkLimitExceeded"
           /\ ret.out.err = "Ok" =>
                  Len(account.work) - Len(ret.before.work)
                      <= 101 - Len(ret.before.work) - 1

\* a Breach whose units are held back by the free space: the list ends
\* with 100 entries and the rest waits in work_cached; and a Breach that
\* finds the list with 100 entries
C30_Witness ==
    /\ ret.op = "Breach"
    /\ ret.out.err = "Ok"
    /\ Len(account.work) = 100
    /\ account.work_cached > ret.before.work_cached

\* C31: a successful Breach buys floor((payment + breach_remain) /
\* breach_price) whole units, at most 10, and leaves the remainder of that
\* division, which is below breach_price, in breach_remain
C31_UnitsAndRemainder ==
    (/\ probe.fn = "process_breach"
     /\ probe.done
     /\ probe.out.err = "Ok"
     /\ probe.instance.difficulty + 3 <= 23) =>
        /\ probe.out.units
               = (probe.call.lamports + probe.instance.breach_remain)
                     \div probe.instance.breach_price
        /\ probe.out.units <= 10
        /\ probe.out.instance.breach_remain
               = (probe.call.lamports + probe.instance.breach_remain)
                     % probe.instance.breach_price
        /\ probe.out.instance.breach_remain < probe.instance.breach_price

\* C32: the treasury recorded never exceeds the balance of the authority;
\* a payout of a limit break is covered by the balance, and a Withdraw
\* leaves at least the recorded treasury with the authority and the record
\* of it as it was
C32_TreasuryCovered ==
    /\ U64Le(account.lamports, authority_lamports)
    /\ (ret.op = "LimitBreak" /\ ret.out.err = "Ok") =>
           /\ U64Le(ret.out.paid_out, ret.balance)
           /\ authority_lamports = U64Sub(ret.balance, ret.out.paid_out)
    /\ (ret.op = "Withdraw" /\ ret.out.err = "Ok") =>
           /\ account.lamports = ret.before.lamports
           /\ U64Le(ret.before.lamports, ret.balance)
           /\ ret.out.paid_out = U64Sub(ret.balance, ret.before.lamports)
           /\ authority_lamports = ret.before.lamports

\* a payout of 5% of the treasury made when the authority holds exactly the
\* treasury, the excess having been withdrawn
C32_Witness ==
    /\ ret.op = "LimitBreak"
    /\ ret.out.err = "Ok"
    /\ stats.withdraws > 0
    /\ ret.balance = ret.before.lamports
    /\ ret.out.paid_out = U64FivePercent(ret.before.lamports)
    /\ ret.out.paid_out # U64(0)
    /\ account.lamports = authority_lamports

\* C33: a successful Claim of an entry takes one copy of it out of the work
\* list, and a Claim of an entry that is not in the list fails, with
\* InvalidClaimHash when the call is otherwise in order, so that a claimed
\* entry is not redeemed again unless it was there twice; a successful
\* LimitBreak raises limit_count by one and, unless it has brought the
\* difficulty to the ceiling (difficulty + 3 > 23, where LimitBreak stays
\* disabled), replaces limit_break by the puzzle generated from the new
\* limit_count
C33_NoDoubleRedemption ==
    /\ (ret.op = "Claim" /\ ret.out.err = "Ok") =>
           Cardinality({i \in 1..Len(account.work) :
                            account.work[i] = ret.call.work})
               = Cardinality({i \in 1..Len(ret.before.work) :
                                  ret.before.work[i] = ret.call.work}) - 1
    /\ (/\ ret.op = "Claim"
        /\ \A i \in 1..Len(ret.before.work) :
               ret.before.work[i] # ret.call.work) =>
           /\ ret.out.err \notin {"Ok", "IncorrectClaimSolution", "CpiFailed"}
           /\ (/\ ret.before.is_initialized
               /\ ret.call = ClaimCall(ret.before, ret.call.claim_id,
                                       ret.call.pool_id, ret.call.work)) =>
                  ret.out.err = "InvalidClaimHash"
    /\ (ret.op = "LimitBreak" /\ ret.out.err = "Ok") =>
           /\ account.limit_count = ret.before.limit_count + 1
           /\ account.difficulty + 3 <= 23 =>
                  account.limit_break
                      = create_limit_break(clock, account, INSTANCE_ID, 200,
                                           account.difficulty + 3)

\* the Claim of an entry repeated right after it succeeded: the entry, whose
\* puzzle the claimant has solved, is no longer in the list
C33_Witness ==
    /\ ret.op = "Claim"
    /\ ret.out.err = "InvalidClaimHash"
    /\ stats.claimed > 0
    /\ ret.call.work # AbsentEntry
    /\ ret.call.work[1] = 100
    /\ check_claim(ret.call.claim_id, ret.call.pool_id, ret.call.work)

\* C34: with difficulty + 3 > 23 a successful Breach takes no payment, buys
\* no unit and mints nothing; it moves min(work_cached, 10, free space)
\* units of the backlog into work as puzzles, uses up the doubling credits
\* for them, and leaves every other field of the record as it was
C34_BreachAtCeiling ==
    (/\ probe.fn = "process_breach"
     /\ probe.done
     /\ probe.out.err = "Ok"
     /\ probe.instance.difficulty + 3 > 23) =>
        LET cached == probe.instance.work_cached
            free == 101 - Len(probe.instance.work) - 1
            moved == IF cached <= 10 /\ cached <= free THEN cached
                     ELSE IF free <= 10 THEN free ELSE 10
            doubled == IF moved <= probe.instance.token_doubles THEN moved
                       ELSE probe.instance.token_doubles
        IN /\ probe.out.paid_in = 0
           /\ probe.out.units = 0
           /\ probe.out.minted = 0
           /\ Len(probe.out.instance.work)
                  = Len(probe.instance.work) + moved
           /\ probe.out.instance
                  = [probe.instance EXCEPT
                        !.work = probe.out.instance.work,
                        !.work_cached = cached - moved,
                        !.token_doubles = @ - doubled]

\* a Breach at difficulty 21 that finds a backlog of five units and three
\* doubling credits: five puzzles are issued, three of them doubled
C34_Witness ==
    /\ probe.fn = "process_breach"
    /\ probe.done
    /\ probe.out.err = "Ok"
    /\ probe.instance.difficulty = 21
    /\ probe.instance.work_cached = 5
    /\ probe.instance.token_doubles = 3
    /\ Len(probe.instance.work) = 50
    /\ Len(probe.out.instance.work) = 55
    /\ probe.out.instance.work_cached = 0
    /\ probe.out.instance.token_doubles = 0

\* C35: a successful Breach that buys no unit and finds a backlog and fewer
\* than 100 entries lowers work_cached by min(work_cached, 10, free space),
\* which is at least 1; and while Breaches without purchase and Claims keep
\* succeeding, a backlog is followed by a state with work_cached = 0
C35_BacklogDrains ==
    /\ [](/\ ret.op = "Breach"
          /\ ret.out.err = "Ok"
          /\ ret.out.units = 0
          /\ ret.before.work_cached > 0
          /\ Len(ret.before.work) < 100
          => /\ account.work_cached < ret.before.work_cached
             /\ ret.before.work_cached - account.work_cached
                    = IF /\ ret.before.work_cached <= 10
                         /\ ret.before.work_cached
                                <= 100 - Len(ret.before.work)
                      THEN ret.before.work_cached
                      ELSE IF 100 - Len(ret.before.work) <= 10
                      THEN 100 - Len(ret.before.work) ELSE 10)
    /\ (account.work_cached > 0) ~> (account.work_cached = 0)

\* the Breach that moves the last units of a backlog into a list that
\* Claims have made room in
C35_Witness ==
    /\ ret.op = "Breach"
    /\ ret.out.err = "Ok"
    /\ ret.out.units = 0
    /\ stats.claimed > 0
    /\ ret.before.work_cached > 0
    /\ account.work_cached = 0

\* C36: the data of the instruction that a builder returns decodes to the
\* action of the builder's name with the builder's argument, its first
\* byte is the tag of that action (0 Initialize, 1 Breach, 2 LimitBreak,
\* 3 Claim, 4 Withdraw, 5 ChangeKeys), and process hands it to the handler
\* of that action; so the withdraw builder's instruction reaches
\* process_withdraw
C36_BuildersDispatch ==
    /\ probe.fn = "process"
    /\ probe.done
    => /\ unpack(probe.instruction.data).err = "Ok"
       /\ <<unpack(probe.instruction.data).action,
            probe.instruction.data[1], probe.out.handler>>
              = CASE probe.call.builder = "initialize" ->
                         <<"Initialize", 0, "process_initialize">>
                  [] probe.call.builder = "breach" ->
                         <<"Breach", 1, "process_breach">>
                  [] probe.call.builder = "limit_break" ->
                         <<"LimitBreak", 2, "process_limit_break">>
                  [] probe.call.builder = "claim" ->
                         <<"Claim", 3, "process_claim">>
                  [] probe.call.builder = "withdraw" ->
                         <<"Withdraw", 4, "process_withdraw">>
                  [] probe.call.builder = "change_keys" ->
                         <<"ChangeKeys", 5, "process_change_keys">>
       /\ probe.call.builder = "initialize"
              => unpack(probe.instruction.data).nonce = probe.call.nonce
       /\ probe.call.builder = "breach"
              => unpack(probe.instruction.data).lamports
                     = probe.call.lamports
       /\ probe.call.builder = "claim"
              => unpack(probe.instruction.data).work = probe.call.work

=============================================================================
